---- MODULE Spec2Model ----
(***************************************************************************)
(* A model of the statistical core of js-metrics-plus: the statistics      *)
(* helpers and the two samples of src/src/sample.ts, the EWMA              *)
(* (src/unnamed/part_002), the meter (src/unnamed/part_003) and the timer  *)
(* of src/src/histogram.ts.                                                *)
(*                                                                         *)
(* Numbers.  A JavaScript number that is the result of a division is       *)
(* modelled as an exact rational <<n, d>> in lowest terms with d > 0; NaN  *)
(* is <<0, 0>> and a value that is not rational (the square root of a      *)
(* non-square) is <<1, 0>>.  Sample values, counts and times are integers. *)
(***************************************************************************)
EXTENDS Integers, Sequences, FiniteSets, Bags, TLC

\* ------------------------------------------------------------------------
\* Bounds of the model
\* ------------------------------------------------------------------------
MaxLen == 3          \* longest input sequence of the statistics helpers
MaxR == 2            \* largest reservoir size of a sample under test
MaxUpdates == 4      \* most updates of a sample since construction/clear
MaxCalls == 4        \* most calls made on an EWMA, a meter or a timer
MaxTicks == 3        \* most advances of the clock
MaxRecordings == 2   \* most durations recorded by a timer
MaxEntries == 2      \* most entries ever pushed to a decaying sample
MaxClears == 1       \* most hours by which clear() calls move the deadline ahead
MaxHours == 2        \* most advances of the clock of a decaying sample
MaxIds == 2          \* most ids taken from BaseMetric.COUNTER before a construction
MaxCount == 2        \* largest absolute value of a counter
MaxStarts == 2       \* most start() calls on a reporter
MaxFlushes == 2      \* most once() calls before the user calls once()

\* The values fed to samples: 9 and 10 differ in digit count, -1 is negative.
Values == {-1, 9, 10}

\* ------------------------------------------------------------------------
\* Rational arithmetic (IEEE doubles are exact on the small values used)
\* ------------------------------------------------------------------------
Abs(n) == IF n < 0 THEN -n ELSE n

RECURSIVE GCD(_, _)
GCD(a, b) == IF b = 0 THEN a ELSE GCD(b, a % b)

NaN == <<0, 0>>
Irrational == <<1, 0>>
IsNum(q) == q[2] # 0

Rat(n, d) ==
  IF d = 0 THEN NaN
  ELSE LET g == GCD(Abs(n), Abs(d))
           s == IF d < 0 THEN -1 ELSE 1
       IN <<s * (n \div g), s * (d \div g)>>

I2R(i) == <<i, 1>>
Zero == I2R(0)
One == I2R(1)

RAdd(a, b) == IF IsNum(a) /\ IsNum(b) THEN Rat(a[1]*b[2] + b[1]*a[2], a[2]*b[2]) ELSE NaN
RSub(a, b) == IF IsNum(a) /\ IsNum(b) THEN Rat(a[1]*b[2] - b[1]*a[2], a[2]*b[2]) ELSE NaN
RMul(a, b) == IF IsNum(a) /\ IsNum(b) THEN Rat(a[1]*b[1], a[2]*b[2]) ELSE NaN
\* x / 0 is NaN for x = 0; the model never divides a non-zero number by zero.
RDiv(a, b) == IF IsNum(a) /\ IsNum(b) THEN Rat(a[1]*b[2], a[2]*b[1]) ELSE NaN
\* Comparisons with NaN are false, as in IEEE 754.
RLt(a, b) == IsNum(a) /\ IsNum(b) /\ a[1]*b[2] < b[1]*a[2]
RGe(a, b) == IsNum(a) /\ IsNum(b) /\ a[1]*b[2] >= b[1]*a[2]
RIsInt(q) == IsNum(q) /\ q[2] = 1
\* Math.floor
RFloor(q) == IF q[1] >= 0 THEN q[1] \div q[2] ELSE -((-q[1] + q[2] - 1) \div q[2])

\* Math.sqrt: exact on squares of rationals, not rational otherwise.
ISqrt(n) == CHOOSE k \in 0..n : k*k <= n /\ (k+1)*(k+1) > n
Sqrt(q) ==
  IF ~IsNum(q) \/ q[1] < 0 THEN NaN
  ELSE LET a == ISqrt(q[1])
           b == ISqrt(q[2])
       IN IF a*a = q[1] /\ b*b = q[2] THEN Rat(a, b) ELSE Irrational

\* ------------------------------------------------------------------------
\* Array.prototype.sort() without a comparator: elements are ordered by the
\* UTF-16 code units of their string conversions.
\* ------------------------------------------------------------------------
RECURSIVE Digits(_)
Digits(n) == IF n < 10 THEN <<48 + n>> ELSE Append(Digits(n \div 10), 48 + (n % 10))

\* Number.prototype.toString of an integer, as code units ("-" is 45).
NumberToString(n) == IF n < 0 THEN <<45>> \o Digits(-n) ELSE Digits(n)

RECURSIVE StrLess(_, _)
StrLess(s, t) ==
  IF t = <<>> THEN FALSE
  ELSE IF s = <<>> THEN TRUE
  ELSE IF Head(s) # Head(t) THEN Head(s) < Head(t)
  ELSE StrLess(Tail(s), Tail(t))

\* SortCompare(x, y) < 0 of the default sort.
DefaultLess(x, y) == StrLess(NumberToString(x), NumberToString(y))

\* The sort leaves the elements in ascending order of SortCompare; elements
\* that compare equal are equal numbers, so the result is unique.
RECURSIVE SortInsert(_, _)
SortInsert(x, s) ==
  IF s = <<>> THEN <<x>>
  ELSE IF DefaultLess(x, Head(s)) THEN <<x>> \o s
  ELSE <<Head(s)>> \o SortInsert(x, Tail(s))

RECURSIVE JsSort(_)
JsSort(vals) ==
  IF vals = <<>> THEN <<>>
  ELSE SortInsert(vals[Len(vals)], JsSort(SubSeq(vals, 1, Len(vals) - 1)))

\* vals[i] of a JavaScript array (0-based); undefined outside the indices.
Undefined == NaN
At(vals, i) == vals[i + 1]

\* ------------------------------------------------------------------------
\* Statistics helpers (src/src/sample.ts:399-486)
\* ------------------------------------------------------------------------
\* Number.MAX_SAFE_INTEGER is 2^53 - 1; the largest integer of the model
\* checker, 2^31 - 1, stands for it: both are far above every sample value.
MAX_SAFE_INTEGER == 2^30 + (2^30 - 1)
MIN_SAFE_INTEGER == -MAX_SAFE_INTEGER

RECURSIVE MaxLoop(_, _, _)
MaxLoop(vals, i, max) ==
  IF i >= Len(vals) THEN max
  ELSE MaxLoop(vals, i + 1, IF max < At(vals, i) THEN At(vals, i) ELSE max)

sampleMax(vals) == IF Len(vals) = 0 THEN 0 ELSE MaxLoop(vals, 0, MIN_SAFE_INTEGER)

RECURSIVE MinLoop(_, _, _)
MinLoop(vals, i, min) ==
  IF i >= Len(vals) THEN min
  ELSE MinLoop(vals, i + 1, IF min > At(vals, i) THEN At(vals, i) ELSE min)

sampleMinAlt(vals) == MinLoop(vals, 0, MAX_SAFE_INTEGER)
sampleMin(vals) == IF Len(vals) = 0 THEN 0 ELSE MinLoop(vals, 0, MAX_SAFE_INTEGER)

RECURSIVE SumLoop(_, _, _)
SumLoop(vals, i, sum) ==
  IF i >= Len(vals) THEN sum ELSE SumLoop(vals, i + 1, sum + At(vals, i))

sampleSum(vals) == SumLoop(vals, 0, 0)

sampleMean(vals) ==
  IF Len(vals) = 0 THEN Zero ELSE RDiv(I2R(sampleSum(vals)), I2R(Len(vals)))

RECURSIVE VarLoop(_, _, _, _)
VarLoop(vals, m, i, sum) ==
  IF i >= Len(vals) THEN sum
  ELSE LET d == RSub(I2R(At(vals, i)), m)
       IN VarLoop(vals, m, i + 1, RAdd(sum, RMul(d, d)))

sampleVariance(vals) ==
  IF Len(vals) = 0 THEN Zero
  ELSE RDiv(VarLoop(vals, sampleMean(vals), 0, Zero), I2R(Len(vals)))

sampleStdDev(vals) == Sqrt(sampleVariance(vals))

\* One score of samplePercentiles, on the already sorted vals (lines 448-457).
\* vals[pos-1] and vals[pos] are elements only when pos is an integer; a
\* fractional pos indexes no element and yields undefined, hence NaN.
Score(vals, p) ==
  LET len == Len(vals)
      pos == RMul(p, I2R(len + 1))
  IN IF RLt(pos, One) THEN I2R(At(vals, 0))
     ELSE IF RGe(pos, I2R(len)) THEN I2R(At(vals, len - 1))
     ELSE LET lower == IF RIsInt(pos) THEN I2R(At(vals, pos[1] - 1)) ELSE Undefined
              upper == IF RIsInt(pos) THEN I2R(At(vals, pos[1])) ELSE Undefined
          IN RAdd(lower, RMul(RSub(pos, I2R(RFloor(pos))), RSub(upper, lower)))

\* samplePercentiles sorts vals in place: the result carries both the scores
\* and the array as the call leaves it.
samplePercentiles(vals, ps) ==
  IF Len(vals) = 0
  THEN [scores |-> [i \in 1..Len(ps) |-> Zero], vals |-> vals]
  ELSE LET sorted == JsSort(vals)
       IN [scores |-> [i \in 1..Len(ps) |-> Score(sorted, ps[i])], vals |-> sorted]

samplePercentile(vals, p) ==
  LET r == samplePercentiles(vals, <<p>>)
  IN [score |-> r.scores[1], vals |-> r.vals]

\* ------------------------------------------------------------------------
\* State
\* ------------------------------------------------------------------------
VARIABLES
  now,      \* the wall clock, in ms (Date.now(), new Date().getTime())
  ticks,    \* the number of advances of the clock so far
  call,     \* the last call made: its name, argument, result, and outcome
  stats,    \* an invocation of samplePercentiles: its arguments and result
  us,       \* a UniformSample
  usIn,     \* history: the values passed to us.update since construction/clear
  ew,       \* a StandardEWMA
  ewLog,    \* history: the calls made on ew, with their times and results
  eds,      \* an ExpDecaySample (on its own, or the one of a StandardTimer)
  meter,    \* a StandardMeter (on its own, or the one of a StandardTimer)
  marks,    \* history: the arguments of meter.mark, in call order
  metrics,  \* Registry.#metrics: the registrations, in registration order
  COUNTER,  \* BaseMetric.COUNTER: the id of the next metric constructed
  useNull,  \* _useNullMetrics: the process-wide switch
  regCall,  \* the last call on the registry or on a registered metric
  reporter, \* a Reporter: its class, #flushInterval and #process
  intervals,\* the runtime's active setInterval timers
  handle,   \* the handle that the next setInterval returns
  socket,   \* what the last once() wrote: its keys and values, in order
  flushes   \* history: the number of once() calls made so far

regVars == <<metrics, COUNTER, useNull, regCall>>
repVars == <<reporter, intervals, handle, socket, flushes>>
vars == <<now, ticks, call, stats, us, usIn, ew, ewLog, eds, meter, marks,
          metrics, COUNTER, useNull, regCall,
          reporter, intervals, handle, socket, flushes>>

NoCall == [op |-> "none", arg |-> 0, ret |-> Zero, threw |-> FALSE]
Call(op, arg, ret) == [op |-> op, arg |-> arg, ret |-> ret, threw |-> FALSE]

SeqsUpTo(S, n) == UNION {[1..k -> S] : k \in 0..n}

\* The percentiles asked for: 0, 1/4, 1/2, 3/4, 1.
Ps == {Rat(0, 1), Rat(1, 4), Rat(1, 2), Rat(3, 4), Rat(1, 1)}

\* ------------------------------------------------------------------------
\* The statistics helpers as a program: samplePercentiles(vals, ps)
\* ------------------------------------------------------------------------
IdleStats == [input |-> <<>>, vals |-> <<>>, ps |-> <<>>, scores |-> <<>>, pc |-> "idle"]

StatsInit ==
  stats \in {[input |-> v, vals |-> v, ps |-> q, scores |-> <<>>, pc |-> "call"] :
               v \in SeqsUpTo(Values, MaxLen), q \in SeqsUpTo(Ps, 2) \ {<<>>}}

Percentiles ==
  /\ stats.pc = "call"
  /\ LET r == samplePercentiles(stats.vals, stats.ps)
     IN stats' = [stats EXCEPT !.vals = r.vals, !.scores = r.scores, !.pc = "done"]

\* ------------------------------------------------------------------------
\* UniformSample (src/src/sample.ts:133-306)
\* ------------------------------------------------------------------------
\* constructor(reservoirSize)
NewUniformSample(reservoirSize) ==
  [reservoirSize |-> reservoirSize, values |-> <<>>, count |-> 0]

UniformSize(s) == Len(s.values)

UniformClearOf(s) == [s EXCEPT !.count = 0, !.values = <<>>]

\* update(i), with r the value of Math.floor(Math.random() * this._count)
UniformUpdateUnder(s, i, r) ==
  LET c == s.count + 1
  IN IF UniformSize(s) < s.reservoirSize - 1
     THEN [s EXCEPT !.count = c, !.values = Append(s.values, i)]
     ELSE IF r < Len(s.values) /\ Len(s.values) > 0
          THEN [s EXCEPT !.count = c, !.values[r + 1] = i]
          ELSE [s EXCEPT !.count = c]

UniformUpdateOver(s, i, r) ==
  LET c == s.count + 1
  IN IF UniformSize(s) <= s.reservoirSize
     THEN [s EXCEPT !.count = c, !.values = Append(s.values, i)]
     ELSE IF r < Len(s.values)
          THEN [s EXCEPT !.count = c, !.values[r + 1] = i]
          ELSE [s EXCEPT !.count = c]

UniformUpdateWrap(s, i, r) ==
  LET c == s.count + 1
  IN IF UniformSize(s) < s.reservoirSize
     THEN [s EXCEPT !.count = c, !.values = Append(s.values, i)]
     ELSE IF Len(s.values) > 0
          THEN [s EXCEPT !.count = c, !.values[(r % Len(s.values)) + 1] = i]
          ELSE [s EXCEPT !.count = c]

UniformUpdate(s, i, r) ==
  LET c == s.count + 1
  IN IF UniformSize(s) < s.reservoirSize
     THEN [s EXCEPT !.count = c, !.values = Append(s.values, i)]
     ELSE IF r < Len(s.values)
          THEN [s EXCEPT !.count = c, !.values[r + 1] = i]
          ELSE [s EXCEPT !.count = c]

\* The read methods of a sample, by name, over its _values.
StatNames == {"min", "max", "mean", "sum", "variance", "stdDev"}

SampleStat(op, vals) ==
  CASE op = "min" -> I2R(sampleMin(vals))
    [] op = "max" -> I2R(sampleMax(vals))
    [] op = "mean" -> sampleMean(vals)
    [] op = "sum" -> I2R(sampleSum(vals))
    [] op = "variance" -> sampleVariance(vals)
    [] op = "stdDev" -> sampleStdDev(vals)

IdleUniform == NewUniformSample(0)

UniformInit ==
  /\ us \in {NewUniformSample(r) : r \in 0..MaxR}
  /\ usIn = <<>>

USUpdate ==
  /\ Len(usIn) < MaxUpdates
  /\ \E i \in Values, r \in 0..us.count :
       /\ us' = UniformUpdate(us, i, r)
       /\ usIn' = Append(usIn, i)
       /\ call' = Call("update", i, Zero)

USClear ==
  /\ us' = UniformClearOf(us)
  /\ usIn' = <<>>
  /\ call' = Call("clear", 0, Zero)

\* min(), max(), mean(), sum(), variance(), stdDev()
USStat ==
  /\ \E op \in StatNames : call' = Call(op, 0, SampleStat(op, us.values))
  /\ UNCHANGED <<us, usIn>>

\* percentile(p): sorts this._values in place
USPercentile ==
  /\ \E p \in Ps :
       LET r == samplePercentile(us.values, p)
       IN /\ us' = [us EXCEPT !.values = r.vals]
          /\ call' = Call("percentile", p, r.score)
  /\ UNCHANGED usIn

\* ------------------------------------------------------------------------
\* The clock
\* ------------------------------------------------------------------------
DefaultPeriod == 5000
TickUnit == DefaultPeriod \div 2

ClockInit == now = 0 /\ ticks = 0

\* Time passes, by one of the steps, at most max times.
Advance(steps, max) ==
  /\ ticks < max
  /\ \E d \in steps : now' = now + d
  /\ ticks' = ticks + 1
  /\ call' = Call("tick", 0, Zero)

\* ------------------------------------------------------------------------
\* StandardEWMA (src/unnamed/part_002:293-397)
\* ------------------------------------------------------------------------
\* Stand-ins for 1 - exp(-5/60/m), m = 1, 5, 15, which are not rational.
Alpha1 == Rat(1, 2)
Alpha5 == Rat(1, 4)
Alpha15 == Rat(1, 8)

\* constructor(alpha, period) at time t; recv is the history of the
\* arguments of update, in call order.
NewEWMA(alpha, period, t) ==
  [alpha |-> alpha, period |-> period, ts |-> t, ewma |-> Zero, sample |-> 0,
   init |-> FALSE, recv |-> <<>>]

\* (Date.now() - this.#ts) / this.#period
Periods(e, t) == Rat(t - e.ts, e.period)
Seconds(e) == Rat(e.period, 1000)

\* The block under `if (!this.#init)`: the first commitment.
FirstCommitNoTick(x) ==
  IF ~x.e.init
  THEN [e |-> [x.e EXCEPT !.ewma = RDiv(I2R(x.e.sample), Seconds(x.e)),
                          !.init = TRUE,
                          !.sample = 0],
        periods |-> RSub(x.periods, One)]
  ELSE x

FirstCommit(x) ==
  IF ~x.e.init
  THEN [e |-> [x.e EXCEPT !.ewma = RDiv(I2R(x.e.sample), Seconds(x.e)),
                          !.ts = x.e.ts + x.e.period,
                          !.init = TRUE,
                          !.sample = 0],
        periods |-> RSub(x.periods, One)]
  ELSE x

\* The block under `if (periods >= 1)`: the ended period is committed.
CommitPeriodKeepSum(x) ==
  IF RGe(x.periods, One)
  THEN [e |-> [x.e EXCEPT !.ewma = RAdd(RMul(x.e.alpha, RDiv(I2R(x.e.sample), Seconds(x.e))),
                                        RMul(RSub(One, x.e.alpha), x.e.ewma)),
                          !.ts = x.e.ts + x.e.period],
        periods |-> RSub(x.periods, One)]
  ELSE x

CommitPeriod(x) ==
  IF RGe(x.periods, One)
  THEN [e |-> [x.e EXCEPT !.ewma = RAdd(RMul(x.e.alpha, RDiv(I2R(x.e.sample), Seconds(x.e))),
                                        RMul(RSub(One, x.e.alpha), x.e.ewma)),
                          !.sample = 0,
                          !.ts = x.e.ts + x.e.period],
        periods |-> RSub(x.periods, One)]
  ELSE x

\* The loop `while (periods >= 1)`: each further period decays the rate.
RECURSIVE DecayLoopStuck(_)
DecayLoopStuck(x) ==
  IF RGe(x.periods, One)
  THEN DecayLoopStuck([e |-> [x.e EXCEPT !.ewma = RMul(RSub(One, x.e.alpha), x.e.ewma)],
                       periods |-> RSub(x.periods, One)])
  ELSE x

RECURSIVE DecayLoop(_)
DecayLoop(x) ==
  IF RGe(x.periods, One)
  THEN DecayLoop([e |-> [x.e EXCEPT !.ewma = RMul(RSub(One, x.e.alpha), x.e.ewma),
                                    !.ts = x.e.ts + x.e.period],
                  periods |-> RSub(x.periods, One)])
  ELSE x

\* rate() at time t: the EWMA it leaves and the value it returns.
EwmaRate(e, t) ==
  LET periods == Periods(e, t)
  IN IF RLt(periods, One) \/ ~e.init
     THEN [e |-> e, ret |-> e.ewma]
     ELSE LET x == DecayLoop(CommitPeriod(FirstCommit([e |-> e, periods |-> periods])))
          IN [e |-> x.e, ret |-> x.e.ewma]

\* update(i) at time t
EwmaUpdateOverwrite(e, i, t) ==
  LET periods == Periods(e, t)
      r == [e EXCEPT !.recv = Append(e.recv, i)]
  IN IF ~e.init /\ RLt(periods, One)
     THEN [r EXCEPT !.sample = e.sample + i, !.ewma = Zero]
     ELSE IF RLt(periods, One)
     THEN [r EXCEPT !.sample = i]
     ELSE LET x == DecayLoop(CommitPeriod(FirstCommit([e |-> r, periods |-> periods])))
          IN [x.e EXCEPT !.sample = x.e.sample + i]

EwmaUpdate(e, i, t) ==
  LET periods == Periods(e, t)
      r == [e EXCEPT !.recv = Append(e.recv, i)]
  IN IF ~e.init /\ RLt(periods, One)
     THEN [r EXCEPT !.sample = e.sample + i, !.ewma = Zero]
     ELSE IF RLt(periods, One)
     THEN [r EXCEPT !.sample = e.sample + i]
     ELSE LET x == DecayLoop(CommitPeriod(FirstCommit([e |-> r, periods |-> periods])))
          IN [x.e EXCEPT !.sample = x.e.sample + i]

\* The numbers of events marked.
Marks == {3, 5}

IdleEwma == NewEWMA(Zero, DefaultPeriod, 0)

EwmaInit ==
  /\ ew \in {NewEWMA(a, DefaultPeriod, 0) : a \in {Alpha1, Alpha5}}
  /\ ewLog = <<>>

LogEntry(op, arg, t, ret) == [op |-> op, arg |-> arg, t |-> t, ret |-> ret]

EWUpdate ==
  /\ Len(ewLog) < MaxCalls
  /\ \E i \in Marks :
       /\ ew' = EwmaUpdate(ew, i, now)
       /\ ewLog' = Append(ewLog, LogEntry("update", i, now, Zero))
       /\ call' = Call("update", i, Zero)

EWRate ==
  /\ Len(ewLog) < MaxCalls
  /\ LET r == EwmaRate(ew, now)
     IN /\ ew' = r.e
        /\ ewLog' = Append(ewLog, LogEntry("rate", 0, now, r.ret))
        /\ call' = Call("rate", 0, r.ret)

\* ------------------------------------------------------------------------
\* StandardMeter (src/unnamed/part_003:170-311)
\* ------------------------------------------------------------------------
\* constructor() at time t
NewMeter(t) ==
  [count |-> 0,
   a1 |-> NewEWMA(Alpha1, DefaultPeriod, t),
   a5 |-> NewEWMA(Alpha5, DefaultPeriod, t),
   a15 |-> NewEWMA(Alpha15, DefaultPeriod, t),
   start |-> t]

\* mark(i) at time t
MeterMark(m, i, t) ==
  [m EXCEPT !.count = m.count + i,
            !.a1 = EwmaUpdate(m.a1, i, t),
            !.a5 = EwmaUpdate(m.a5, i, t),
            !.a15 = EwmaUpdate(m.a15, i, t)]

\* rate1(), rate5(), rate15() at time t: the meter left and the value returned
MeterRate1(m, t) ==
  LET r == EwmaRate(m.a1, t) IN [m |-> [m EXCEPT !.a1 = r.e], ret |-> r.ret]
MeterRate5(m, t) ==
  LET r == EwmaRate(m.a5, t) IN [m |-> [m EXCEPT !.a5 = r.e], ret |-> r.ret]
MeterRate15(m, t) ==
  LET r == EwmaRate(m.a15, t) IN [m |-> [m EXCEPT !.a15 = r.e], ret |-> r.ret]

\* rateMean() at time t
MeterRateMeanNoOffset(m, t) ==
  LET elapsed == Rat(t - m.start, 1000)
  IN RDiv(I2R(m.count), elapsed)

MeterRateMean(m, t) ==
  LET elapsed == Rat(t - m.start, 1000)
  IN RDiv(I2R(m.count), RAdd(One, elapsed))

\* snapshot() at time t, without the name, id and description
MeterSnapshot(m, t) ==
  LET Rates(r1, r5, r15) ==
        [m |-> [m EXCEPT !.a1 = r1.e, !.a5 = r5.e, !.a15 = r15.e],
         ret |-> [count |-> m.count, rate1 |-> r1.ret, rate5 |-> r5.ret,
                  rate15 |-> r15.ret, rateMean |-> MeterRateMean(m, t)]]
  IN Rates(EwmaRate(m.a1, t), EwmaRate(m.a5, t), EwmaRate(m.a15, t))

IdleMeter == NewMeter(0)

MeterInit ==
  /\ meter = NewMeter(0)
  /\ marks = <<>>

MMark ==
  /\ Len(marks) < MaxCalls
  /\ \E i \in Marks :
       /\ meter' = MeterMark(meter, i, now)
       /\ marks' = Append(marks, i)
       /\ call' = Call("mark", i, Zero)

MRateMean ==
  /\ call' = Call("rateMean", 0, MeterRateMean(meter, now))
  /\ UNCHANGED <<meter, marks>>

MRate ==
  /\ \E r \in {MeterRate1(meter, now), MeterRate5(meter, now), MeterRate15(meter, now)} :
       /\ meter' = r.m
       /\ call' = Call("rate", 0, r.ret)
  /\ UNCHANGED marks

\* ------------------------------------------------------------------------
\* ExpDecaySample (src/src/sample.ts:319-397)
\*
\* values and count are the _values and _count inherited from UniformSample,
\* entries is the private #values.  A priority key exp(alpha*e/1000) / f is
\* kept as the pair [e, f]: e in ms, f the random divisor.  shared says that
\* #t0 and #t1 are one and the same Date object.
\* ------------------------------------------------------------------------
rescaleThreshold == 3600000

\* constructor(alpha, reservoirSize) at time t: `this.#t1 = this.#t0` makes
\* #t1 the object #t0, and setTime() then moves both.
NewExpDecaySample(alpha, reservoirSize, t) ==
  [reservoirSize |-> reservoirSize, alpha |-> alpha, count |-> 0, values |-> <<>>,
   entries |-> <<>>, t0 |-> t + rescaleThreshold, t1 |-> t + rescaleThreshold,
   shared |-> TRUE]

\* clear() at time t: #t0 becomes a new Date; the old object #t1 is moved on.
EdsClearKeepCount(s, t) ==
  [s EXCEPT !.values = <<>>,
            !.t0 = t,
            !.t1 = s.t1 + rescaleThreshold,
            !.shared = FALSE]

EdsClear(s, t) ==
  [s EXCEPT !.count = 0,
            !.values = <<>>,
            !.t0 = t,
            !.t1 = s.t1 + rescaleThreshold,
            !.shared = FALSE]

\* Array.prototype.pop(): nothing happens on an empty array.
Pop(a) == IF Len(a) = 0 THEN a ELSE SubSeq(a, 1, Len(a) - 1)

\* update(i) at time t, with f the value of Math.floor(Math.random() * count)
EdsUpdate(s, i, t, f) ==
  LET values == IF Len(s.values) = s.reservoirSize THEN Pop(s.values) ELSE s.values
      elapsedMs == t - s.t0
      pushed == Append(s.entries, [key |-> [e |-> elapsedMs, f |-> f], value |-> i])
      s1 == [s EXCEPT !.count = s.count + 1, !.values = values, !.entries = pushed]
  IN IF t > s.t1
     THEN [s1 EXCEPT !.entries = [k \in DOMAIN pushed |->
                                   [pushed[k] EXCEPT !.key.e = pushed[k].key.e - (t - s.t0)]],
                     !.t0 = t,
                     !.t1 = t + rescaleThreshold,
                     !.shared = FALSE]
     ELSE s1

\* size() is inherited: the length of _values.
EdsSize(s) == Len(s.values)

IdleEds == NewExpDecaySample(Zero, 0, 0)

\* The decay constants given to a sample under test.
EdsAlpha == Rat(15, 1000)

\* The values fed to a sample under test.
EdsValues == {9, 10}

\* The percentiles asked of a sample under test: the median and the maximum.
EdsPs == {Rat(1, 2), Rat(1, 1)}

\* The reservoir sizes of a sample under test: size() === 0 holds for the
\* first, and never for the second.
EdsInit == eds \in {NewExpDecaySample(EdsAlpha, r, 0) : r \in {0, 1}}

EDUpdate ==
  /\ Len(eds.entries) < MaxEntries
  /\ \E i \in EdsValues, f \in 0..eds.count :
       /\ eds' = EdsUpdate(eds, i, now, f)
       /\ call' = Call("update", i, Zero)

\* Each clear() moves #t1 on by an hour: the guard keeps #t1 bounded.
EDClear ==
  /\ eds.t1 - now <= MaxClears * rescaleThreshold
  /\ eds' = EdsClear(eds, now)
  /\ call' = Call("clear", 0, Zero)

EDStat ==
  /\ \E op \in StatNames : call' = Call(op, 0, SampleStat(op, eds.values))
  /\ UNCHANGED eds

EDPercentile ==
  /\ \E p \in EdsPs :
       LET r == samplePercentile(eds.values, p)
       IN /\ eds' = [eds EXCEPT !.values = r.vals]
          /\ call' = Call("percentile", p, r.score)

\* ------------------------------------------------------------------------
\* StandardHistogram and StandardTimer (src/src/histogram.ts:277-443, 794-995)
\*
\* A timer is the pair [hist, meter]; its histogram is a facade over its
\* sample, so hist is the ExpDecaySample itself.
\* ------------------------------------------------------------------------
TimerAlpha == Rat(15, 1000)
TimerReservoir == 1028

\* The percentiles of StandardHistogram.snapshot(): .5, .75, .95, .99, .999
SnapshotPs == <<Rat(1, 2), Rat(3, 4), Rat(95, 100), Rat(99, 100), Rat(999, 1000)>>

\* StandardHistogram.snapshot(), without the name, id and description: the
\* sample as the percentiles call leaves it, and the fields returned.
HistogramSnapshot(h) ==
  LET Fields(v, scores) ==
        [h |-> [h EXCEPT !.values = v],
         ret |-> [count |-> h.count, max |-> sampleMax(v), mean |-> sampleMean(v),
                  min |-> sampleMin(v), stdDev |-> sampleStdDev(v), sum |-> sampleSum(v),
                  variance |-> sampleVariance(v), percentile |-> scores]]
      Sorted(r) == Fields(r.vals, r.scores)
  IN Sorted(samplePercentiles(h.values, SnapshotPs))

\* constructor() at time t
NewTimer(t) ==
  [hist |-> NewExpDecaySample(TimerAlpha, TimerReservoir, t), meter |-> NewMeter(t)]

TimerCount(tm) == tm.hist.count
TimerMax(tm) == sampleMax(tm.hist.values)
TimerMin(tm) == sampleMin(tm.hist.values)

\* update(d) at time t, f being the random number drawn by the sample
TimerUpdateNoMark(tm, d, t, f) ==
  [hist |-> EdsUpdate(tm.hist, d, t, f), meter |-> tm.meter]

TimerUpdate(tm, d, t, f) ==
  [hist |-> EdsUpdate(tm.hist, d, t, f), meter |-> MeterMark(tm.meter, 1, t)]

\* updateSince(since) at time t
TimerUpdateSince(tm, since, t, f) ==
  [hist |-> EdsUpdate(tm.hist, t - since, t, f), meter |-> MeterMark(tm.meter, 1, t)]

\* time(f): f is called at time t, and returns or throws at time t + dur.
TimerTimeFinally(tm, t, dur, threw, f) == TimerUpdateSince(tm, t, t + dur, f)

TimerTime(tm, t, dur, threw, f) ==
  IF threw THEN tm ELSE TimerUpdateSince(tm, t, t + dur, f)

\* snapshot() at time t: the fields of the meter override those of the
\* histogram that have the same name (count).
TimerSnapshot(tm, t) ==
  LET Merged(h, m) ==
        [tm |-> [hist |-> h.h, meter |-> m.m],
         ret |-> [count |-> m.ret.count, max |-> h.ret.max, mean |-> h.ret.mean,
                  min |-> h.ret.min, stdDev |-> h.ret.stdDev, sum |-> h.ret.sum,
                  variance |-> h.ret.variance, percentile |-> h.ret.percentile,
                  rate1 |-> m.ret.rate1, rate5 |-> m.ret.rate5,
                  rate15 |-> m.ret.rate15, rateMean |-> m.ret.rateMean]]
  IN Merged(HistogramSnapshot(tm.hist), MeterSnapshot(tm.meter, t))

\* The timer made of the two variables.
timer == [hist |-> eds, meter |-> meter]

\* The durations recorded, and the times that a timed function takes.
Durations == {0, 100}
RunTimes == {0, TickUnit}

TimerInit ==
  /\ eds = NewTimer(0).hist
  /\ meter = NewTimer(0).meter
  /\ marks = <<>>

\* A recording: the timer it leaves, and one more mark in the history.
Recorded(tm) ==
  /\ eds' = tm.hist
  /\ meter' = tm.meter
  /\ marks' = Append(marks, 1)

TUpdate ==
  /\ Len(marks) < MaxRecordings
  /\ \E d \in Durations, f \in 0..eds.count :
       /\ Recorded(TimerUpdate(timer, d, now, f))
       /\ call' = Call("update", d, Zero)
  /\ UNCHANGED <<now, ticks>>

TUpdateSince ==
  /\ Len(marks) < MaxRecordings
  /\ \E since \in {0, now}, f \in 0..eds.count :
       /\ Recorded(TimerUpdateSince(timer, since, now, f))
       /\ call' = Call("updateSince", since, Zero)
  /\ UNCHANGED <<now, ticks>>

\* time(f), whole: the clock moves by the time that f takes.
TTime ==
  /\ Len(marks) < MaxRecordings
  /\ \E dur \in RunTimes, threw \in BOOLEAN, f \in 0..eds.count :
       LET tm == TimerTime(timer, now, dur, threw, f)
       IN /\ dur > 0 => ticks < MaxTicks
          /\ now' = now + dur
          /\ ticks' = IF dur > 0 THEN ticks + 1 ELSE ticks
          /\ eds' = tm.hist
          /\ meter' = tm.meter
          /\ marks' = IF threw THEN marks ELSE Append(marks, 1)
          /\ call' = [Call("time", dur, Zero) EXCEPT !.threw = threw]

TSnapshot ==
  /\ \E r \in {TimerSnapshot(timer, now)} :
       /\ eds' = r.tm.hist
       /\ meter' = r.tm.meter
       /\ call' = Call("snapshot", 0, r.ret)
  /\ UNCHANGED <<now, ticks, marks>>

\* ------------------------------------------------------------------------
\* BaseMetric and the instruments (src/src/metric.ts:51-151,
\* src/unnamed/part_002:61-197, 463-607, src/src/gauge.ts:47-188,
\* src/src/histogram.ts:128-443, 608-995, src/unnamed/part_003:80-311)
\*
\* A metric is [id, cls, name, description, st]: st holds the private
\* fields of its class. The null classes have no field of their own.
\* ------------------------------------------------------------------------
Null == "null"
\* undefined: an optional argument left out, the value of a field that an
\* object does not have, the result of a void method. A value x passed for
\* an optional argument is <<x>>.
JsUndefined == <<>>

Kinds == {"Counter", "Gauge", "Healthcheck", "Histogram", "Meter", "Timer"}

StandardOf(kind) == "Standard" \o kind
NullOf(kind) == "Null" \o kind

NullClasses == {NullOf(k) : k \in Kinds}
StandardClasses == {StandardOf(k) : k \in Kinds} \cup {"FunctionalGauge"}

\* The interface that a class implements.
KindOf(cls) ==
  IF cls = "FunctionalGauge" THEN "Gauge"
  ELSE CHOOSE k \in Kinds : cls \in {StandardOf(k), NullOf(k)}

\* {...a, ...b}: the fields of b override those of a.
Spread(a, b) == b @@ a

\* The ids that constructing an instance takes from BaseMetric.COUNTER: a
\* StandardTimer constructs a StandardMeter and a StandardHistogram.
IdsOf(cls) == IF cls = "StandardTimer" THEN 3 ELSE 1

\* The private fields that the constructor of cls sets, at time t; arg is
\* the constructor's first argument where it has one (fn, sample); the
\* function of a FunctionalGauge is the number that it returns.
NewState(cls, arg, t) ==
  CASE cls = "StandardCounter" -> [count |-> 0]
    [] cls = "StandardGauge" -> [value |-> 0]
    [] cls = "FunctionalGauge" -> [value |-> 0, fn |-> arg[1]]
    [] cls = "StandardHealthcheck" -> [err |-> Null, fn |-> arg[1]]
    [] cls = "StandardHistogram" -> [sample |-> arg[1]]
    [] cls = "StandardMeter" -> NewMeter(t)
    [] cls = "StandardTimer" -> NewTimer(t)
    [] OTHER -> <<>>

\* new cls(arg, name) at time t, COUNTER being id
NewMetric(cls, id, name, arg, t) ==
  [id |-> id, cls |-> cls, name |-> name, description |-> "",
   st |-> NewState(cls, arg, t)]

\* BaseMetric.snapshot()
BaseSnapshot(m) == [id |-> m.id, name |-> m.name, description |-> m.description]

\* The percentile object of a histogram's snapshot, from ps[0..4]
PercentileObject(ps) ==
  [median |-> ps[1]] @@ ("_75" :> ps[2]) @@ ("_95" :> ps[3]) @@
  ("_99" :> ps[4]) @@ ("_99_9" :> ps[5])

ZeroPercentiles == <<Zero, Zero, Zero, Zero, Zero>>

\* snapshot() of the null classes
NullSnapshotRenamed(m) ==
  CASE m.cls = "NullCounter" -> Spread(BaseSnapshot(m), [count |-> Zero])
    [] m.cls = "NullGauge" -> Spread(BaseSnapshot(m), [gauge |-> Zero])
    [] m.cls = "NullHealthcheck" ->
         Spread(BaseSnapshot(m), [healthy |-> TRUE, error |-> Null])
    [] m.cls = "NullHistogram" ->
         Spread(BaseSnapshot(m),
                [count |-> Zero, max |-> Zero, mean |-> Zero, min |-> Zero,
                 stddev |-> Zero, sum |-> Zero, variance |-> Zero,
                 percentile |-> PercentileObject(ZeroPercentiles)])
    [] m.cls = "NullMeter" ->
         Spread(BaseSnapshot(m),
                [count |-> Zero, rate1 |-> Zero, rate5 |-> Zero,
                 rate15 |-> Zero, rateMean |-> Zero])
    [] m.cls = "NullTimer" ->
         Spread(BaseSnapshot(m),
                [count |-> Zero, rate1 |-> Zero, rate5 |-> Zero,
                 rate15 |-> Zero, rateMean |-> Zero, max |-> Zero,
                 mean |-> Zero, min |-> Zero, stdDev |-> Zero, sum |-> Zero,
                 variance |-> Zero, percentile |-> PercentileObject(ZeroPercentiles)])

NullSnapshot(m) ==
  CASE m.cls = "NullCounter" -> Spread(BaseSnapshot(m), [count |-> Zero])
    [] m.cls = "NullGauge" -> Spread(BaseSnapshot(m), [gauge |-> Zero])
    [] m.cls = "NullHealthcheck" ->
         Spread(BaseSnapshot(m), [healthy |-> TRUE, error |-> Null])
    [] m.cls = "NullHistogram" ->
         Spread(BaseSnapshot(m),
                [count |-> Zero, max |-> Zero, mean |-> Zero, min |-> Zero,
                 stdDev |-> Zero, sum |-> Zero, variance |-> Zero,
                 percentile |-> PercentileObject(ZeroPercentiles)])
    [] m.cls = "NullMeter" ->
         Spread(BaseSnapshot(m),
                [count |-> Zero, rate1 |-> Zero, rate5 |-> Zero,
                 rate15 |-> Zero, rateMean |-> Zero])
    [] m.cls = "NullTimer" ->
         Spread(BaseSnapshot(m),
                [count |-> Zero, rate1 |-> Zero, rate5 |-> Zero,
                 rate15 |-> Zero, rateMean |-> Zero, max |-> Zero,
                 mean |-> Zero, min |-> Zero, stdDev |-> Zero, sum |-> Zero,
                 variance |-> Zero, percentile |-> PercentileObject(ZeroPercentiles)])

\* The fields of a snapshot as one kind of number, and its percentiles as
\* the object that the class builds from ps.
Numbers(snap) ==
  [f \in DOMAIN snap |->
     IF f \in {"count", "max", "min", "sum"} THEN I2R(snap[f])
     ELSE IF f = "percentile" THEN PercentileObject(snap[f])
     ELSE snap[f]]

\* StandardHistogram.snapshot() on its sample, without the fields of BaseMetric
NamedHistogramSnapshot(h) ==
  LET Named(r) == [h |-> r.h, ret |-> Numbers(r.ret)]
  IN Named(HistogramSnapshot(h))

\* StandardMeter.snapshot() at time t, without the fields of BaseMetric
NamedMeterSnapshot(m, t) ==
  LET Named(r) == [m |-> r.m, ret |-> Numbers(r.ret)]
  IN Named(MeterSnapshot(m, t))

\* StandardTimer.snapshot() at time t, without the fields of BaseMetric
NamedTimerSnapshot(tm, t) ==
  LET Named(r) == [tm |-> r.tm, ret |-> Numbers(r.ret)]
  IN Named(TimerSnapshot(tm, t))

\* snapshot() of the standard classes at time t: the metric as the reads
\* leave it, and the object returned.
StandardSnapshot(m, t) ==
  CASE m.cls = "StandardCounter" ->
         [m |-> m, ret |-> Spread(BaseSnapshot(m), [count |-> I2R(m.st.count)])]
    [] m.cls = "StandardGauge" ->
         [m |-> m, ret |-> Spread(BaseSnapshot(m), [gauge |-> I2R(m.st.value)])]
    [] m.cls = "FunctionalGauge" ->
         [m |-> m, ret |-> Spread(BaseSnapshot(m), [gauge |-> I2R(m.st.fn)])]
    [] m.cls = "StandardHealthcheck" ->
         [m |-> m, ret |-> Spread(BaseSnapshot(m),
                                  [healthy |-> m.st.err = Null, error |-> m.st.err])]
    [] m.cls = "StandardHistogram" ->
         LET Of(r) == [m |-> [m EXCEPT !.st.sample = r.h],
                       ret |-> Spread(BaseSnapshot(m), r.ret)]
         IN Of(NamedHistogramSnapshot(m.st.sample))
    [] m.cls = "StandardMeter" ->
         LET Of(r) == [m |-> [m EXCEPT !.st = r.m], ret |-> Spread(BaseSnapshot(m), r.ret)]
         IN Of(NamedMeterSnapshot(m.st, t))
    [] m.cls = "StandardTimer" ->
         LET Of(r) == [m |-> [m EXCEPT !.st = r.tm], ret |-> Spread(r.ret, BaseSnapshot(m))]
         IN Of(NamedTimerSnapshot(m.st, t))

\* The methods of each interface: reads that return a number, and calls
\* that change the instrument.
NumericReads(kind) ==
  CASE kind = "Counter" -> {"count"}
    [] kind = "Gauge" -> {"value"}
    [] kind = "Healthcheck" -> {}
    [] kind = "Histogram" ->
         {"count", "max", "mean", "min", "percentile", "stdDev", "sum", "variance"}
    [] kind = "Meter" -> {"count", "rate1", "rate5", "rate15", "rateMean"}
    [] kind = "Timer" ->
         {"count", "max", "mean", "min", "percentile", "rate1", "rate5", "rate15",
          "rateMean", "stdDev", "sum", "variance"}

Mutators(kind) ==
  CASE kind = "Counter" -> {"clear", "inc", "dec"}
    [] kind = "Gauge" -> {"update"}
    [] kind = "Healthcheck" -> {"check", "healthy", "unhealthy"}
    [] kind = "Histogram" -> {"clear", "update"}
    [] kind = "Meter" -> {"mark"}
    [] kind = "Timer" -> {"time", "update", "updateSince"}

OtherReads(kind) ==
  CASE kind = "Healthcheck" -> {"error", "snapshot"}
    [] kind = "Histogram" -> {"percentiles", "sample", "snapshot"}
    [] kind = "Timer" -> {"percentiles", "snapshot"}
    [] OTHER -> {"snapshot"}

Methods(kind) == NumericReads(kind) \cup Mutators(kind) \cup OtherReads(kind)

\* A method of a null class: nothing changes; the value returned.
NullCall(m, op) ==
  CASE op = "snapshot" -> NullSnapshot(m)
    [] op \in NumericReads(KindOf(m.cls)) -> Zero
    [] op = "percentiles" -> <<>>
    [] op = "sample" -> NewUniformSample(0)
    [] op = "error" -> Null
    [] OTHER -> JsUndefined

\* StandardCounter (src/unnamed/part_002:129-197)
CounterInc(m, i) == [m EXCEPT !.st.count = @ + i]
CounterDec(m, i) == CounterInc(m, -i)
CounterClear(m) == [m EXCEPT !.st.count = 0]
CounterCount(m) == I2R(m.st.count)

\* StandardGauge and FunctionalGauge (src/src/gauge.ts:100-188)
GaugeUpdate(m, i) == IF m.cls = "FunctionalGauge" THEN m ELSE [m EXCEPT !.st.value = i]
GaugeValue(m) == IF m.cls = "FunctionalGauge" THEN I2R(m.st.fn) ELSE I2R(m.st.value)

\* StandardHealthcheck (src/unnamed/part_002:533-607); its function is
\* one that reports the check as passed, or as failed.
HealthcheckHealthy(m) == [m EXCEPT !.st.err = Null]
HealthcheckUnhealthy(m, err) == [m EXCEPT !.st.err = err]
HealthcheckCheck(m) ==
  IF m.st.fn = "healthy" THEN HealthcheckHealthy(m) ELSE HealthcheckUnhealthy(m, "Error")

\* The methods of the standard classes that the registry's users call here:
\* the metric left, and the value returned, at time t.
StandardMethods(cls) ==
  IF KindOf(cls) \in {"Counter", "Gauge", "Healthcheck"} THEN Methods(KindOf(cls))
  ELSE {"count", "snapshot"}

StandardCall(m, op, arg, t) ==
  CASE op = "snapshot" -> StandardSnapshot(m, t)
    [] op = "inc" -> [m |-> CounterInc(m, arg), ret |-> JsUndefined]
    [] op = "dec" -> [m |-> CounterDec(m, arg), ret |-> JsUndefined]
    [] op = "clear" -> [m |-> CounterClear(m), ret |-> JsUndefined]
    [] op = "count" /\ m.cls = "StandardCounter" -> [m |-> m, ret |-> CounterCount(m)]
    [] op = "count" /\ m.cls = "StandardHistogram" ->
         [m |-> m, ret |-> I2R(m.st.sample.count)]
    [] op = "count" /\ m.cls = "StandardMeter" -> [m |-> m, ret |-> I2R(m.st.count)]
    [] op = "count" /\ m.cls = "StandardTimer" -> [m |-> m, ret |-> I2R(TimerCount(m.st))]
    [] op = "update" -> [m |-> GaugeUpdate(m, arg), ret |-> JsUndefined]
    [] op = "value" -> [m |-> m, ret |-> GaugeValue(m)]
    [] op = "check" -> [m |-> HealthcheckCheck(m), ret |-> JsUndefined]
    [] op = "healthy" -> [m |-> HealthcheckHealthy(m), ret |-> JsUndefined]
    [] op = "unhealthy" -> [m |-> HealthcheckUnhealthy(m, "Error"), ret |-> JsUndefined]
    [] op = "error" -> [m |-> m, ret |-> m.st.err]

MethodsOf(cls) ==
  IF cls \in NullClasses THEN Methods(KindOf(cls)) ELSE StandardMethods(cls)

Invoke(m, op, arg, t) ==
  IF m.cls \in NullClasses THEN [m |-> m, ret |-> NullCall(m, op)]
  ELSE StandardCall(m, op, arg, t)

\* time(f) at time t, f being a function that returns or throws after dur
\* ms: the timer left, and the number of times that f was called. The body
\* of NullTimer.time is empty; StandardTimer.time calls f and then records.
NullTimerTime(m) == [m |-> m, ran |-> 0]

StandardTimerTime(m, t, dur, threw, f) ==
  [m |-> [m EXCEPT !.st = TimerTime(m.st, t, dur, threw, f)], ran |-> 1]

InvokeTime(m, t, dur, threw, f) ==
  IF m.cls = "NullTimer" THEN NullTimerTime(m)
  ELSE StandardTimerTime(m, t, dur, threw, f)

\* ------------------------------------------------------------------------
\* Registry and useNullMetrics (src/src/metric.ts:308-885)
\* ------------------------------------------------------------------------
Registration(metricRef) == [metricRef |-> metricRef, name |-> metricRef.name]

isCounter(instance) == instance.cls = "StandardCounter"
isGauge(instance) == instance.cls \in {"StandardGauge", "FunctionalGauge"}
isHealthcheck(instance) == instance.cls = "StandardHealthcheck"
isHistogram(instance) == instance.cls = "StandardHistogram"
isMeter(instance) == instance.cls = "StandardMeter"
isTimer(instance) == instance.cls = "StandardTimer"

\* The test that the list of a kind filters by.
IsA(kind, instance) ==
  CASE kind = "Counter" -> isCounter(instance)
    [] kind = "Gauge" -> isGauge(instance)
    [] kind = "Healthcheck" -> isHealthcheck(instance)
    [] kind = "Histogram" -> isHistogram(instance)
    [] kind = "Meter" -> isMeter(instance)
    [] kind = "Timer" -> isTimer(instance)

\* .map((registration) => registration.metricRef)
Refs(regs) == [i \in 1..Len(regs) |-> regs[i].metricRef]

\* getCounterList(), getGaugeList(), ...: one operator, by kind
getList(ms, kind) ==
  LET Test(r) == IsA(kind, r.metricRef)
  IN Refs(SelectSeq(ms, Test))

getMetricList(ms) == Refs(ms)

\* getMetrics(): a later map.set of a name replaces the earlier one
getMetrics(ms) ==
  [n \in {ms[i].name : i \in 1..Len(ms)} |->
     ms[CHOOSE i \in 1..Len(ms) :
          ms[i].name = n /\ \A j \in (i + 1)..Len(ms) : ms[j].name # n].metricRef]

\* getByName(name), which getMetricsByName, getCountersByName, ... all return
getByName(ms, name) ==
  LET Test(r) == r.name = name
  IN Refs(SelectSeq(ms, Test))

\* .indexOf(metric, 0) over the metricRefs, 1-based here and 0 for -1:
\* instances are compared by identity.
indexOf(ms, metric) ==
  IF \E i \in 1..Len(ms) : ms[i].metricRef.id = metric.id
  THEN CHOOSE i \in 1..Len(ms) :
         /\ ms[i].metricRef.id = metric.id
         /\ \A j \in 1..(i - 1) : ms[j].metricRef.id # metric.id
  ELSE 0

\* .splice(index, 1)
Splice(ms, index) == SubSeq(ms, 1, index - 1) \o SubSeq(ms, index + 1, Len(ms))

RECURSIVE RemoveEach(_, _)
RemoveEach(ms, found) ==
  IF found = <<>> THEN ms
  ELSE LET index == indexOf(ms, Head(found))
       IN RemoveEach(IF index > 0 THEN Splice(ms, index) ELSE ms, Tail(found))

removeMetrics(ms, name) == RemoveEach(ms, getByName(ms, name))

registerMetricAlways(ms, metric) == Append(ms, Registration(metric))

registerMetric(ms, metric) ==
  IF Len(getByName(ms, metric.name)) # 0 THEN ms
  ELSE Append(ms, Registration(metric))

\* The body shared by the six getOrRegister functions: ms and c are
\* #metrics and COUNTER, un is _useNullMetrics, arg is fn or the sample
\* where the function takes one, and required says that it throws without.
\* The result is the registry left and the value returned.
GetOrRegisterStandard(kind, ms, c, un, name, arg, required, t) ==
  LET hasName == Len(getByName(ms, name)) # 0
      cls == StandardOf(kind)
      ms1 == IF hasName THEN ms ELSE registerMetric(ms, NewMetric(cls, c, name, arg, t))
  IN IF ~hasName /\ required /\ arg = JsUndefined
     THEN [metrics |-> ms, COUNTER |-> c, threw |-> TRUE, ret |-> JsUndefined]
     ELSE [metrics |-> ms1, COUNTER |-> IF hasName THEN c ELSE c + IdsOf(cls),
           threw |-> FALSE, ret |-> getByName(ms1, name)[1]]

GetOrRegisterStrict(kind, ms, c, un, name, arg, required, t) ==
  LET hasName == Len(getByName(ms, name)) # 0
      cls == IF un THEN NullOf(kind) ELSE StandardOf(kind)
      ms1 == IF hasName THEN ms ELSE registerMetric(ms, NewMetric(cls, c, name, arg, t))
  IN IF required /\ arg = JsUndefined
     THEN [metrics |-> ms, COUNTER |-> c, threw |-> TRUE, ret |-> JsUndefined]
     ELSE [metrics |-> ms1, COUNTER |-> IF hasName THEN c ELSE c + IdsOf(cls),
           threw |-> FALSE, ret |-> getByName(ms1, name)[1]]

GetOrRegister(kind, ms, c, un, name, arg, required, t) ==
  LET hasName == Len(getByName(ms, name)) # 0
      cls == IF un THEN NullOf(kind) ELSE StandardOf(kind)
      ms1 == IF hasName THEN ms ELSE registerMetric(ms, NewMetric(cls, c, name, arg, t))
  IN IF ~hasName /\ required /\ arg = JsUndefined
     THEN [metrics |-> ms, COUNTER |-> c, threw |-> TRUE, ret |-> JsUndefined]
     ELSE [metrics |-> ms1, COUNTER |-> IF hasName THEN c ELSE c + IdsOf(cls),
           threw |-> FALSE, ret |-> getByName(ms1, name)[1]]

getOrRegisterCounter(ms, c, un, name, t) ==
  GetOrRegister("Counter", ms, c, un, name, JsUndefined, FALSE, t)

getOrRegisterGauge(ms, c, un, name, t) ==
  GetOrRegister("Gauge", ms, c, un, name, JsUndefined, FALSE, t)

getOrRegisterHealthcheck(ms, c, un, name, fn, t) ==
  GetOrRegister("Healthcheck", ms, c, un, name, fn, TRUE, t)

getOrRegisterHistogram(ms, c, un, name, s, t) ==
  GetOrRegister("Histogram", ms, c, un, name, s, TRUE, t)

getOrRegisterMeter(ms, c, un, name, t) ==
  GetOrRegister("Meter", ms, c, un, name, JsUndefined, FALSE, t)

getOrRegisterTimer(ms, c, un, name, t) ==
  GetOrRegister("Timer", ms, c, un, name, JsUndefined, FALSE, t)

\* The registry under test: its names, the instances that may be
\* constructed, and the arguments passed.
Names == {"a", "b"}
CanConstruct == COUNTER < MaxIds
UserClasses == {"StandardCounter", "FunctionalGauge"}
HealthcheckFns == {JsUndefined, <<"unhealthy">>}
Samples == {JsUndefined, <<NewUniformSample(0)>>}
Incs == {1, 2}

NoRegCall ==
  [target |-> "Registry", op |-> "new", kind |-> "", name |-> "",
   arg |-> JsUndefined, ret |-> JsUndefined, threw |-> FALSE]

RegCall(target, op, kind, name, arg, ret, threw) ==
  [target |-> target, op |-> op, kind |-> kind, name |-> name,
   arg |-> arg, ret |-> ret, threw |-> threw]

\* new Registry(), in a process that has constructed no metric yet
RegistryInit ==
  /\ metrics = <<>>
  /\ COUNTER = 0
  /\ useNull = FALSE
  /\ regCall = NoRegCall

\* A getOrRegister call made, r being its result.
Returned(kind, name, arg, r) ==
  /\ metrics' = r.metrics
  /\ COUNTER' = r.COUNTER
  /\ regCall' = RegCall("Registry", "getOrRegister", kind, name, arg, r.ret, r.threw)
  /\ UNCHANGED useNull

Registered(name) == getByName(metrics, name) # <<>>

RGetOrRegisterCounter ==
  \E name \in Names :
    /\ Registered(name) \/ CanConstruct
    /\ \E r \in {getOrRegisterCounter(metrics, COUNTER, useNull, name, now)} :
         Returned("Counter", name, JsUndefined, r)

RGetOrRegisterGauge ==
  \E name \in Names :
    /\ Registered(name) \/ CanConstruct
    /\ \E r \in {getOrRegisterGauge(metrics, COUNTER, useNull, name, now)} :
         Returned("Gauge", name, JsUndefined, r)

RGetOrRegisterHealthcheck ==
  \E name \in Names, fn \in HealthcheckFns :
    /\ Registered(name) \/ CanConstruct
    /\ \E r \in {getOrRegisterHealthcheck(metrics, COUNTER, useNull, name, fn, now)} :
         Returned("Healthcheck", name, fn, r)

RGetOrRegisterHistogram ==
  \E name \in Names, s \in Samples :
    /\ Registered(name) \/ CanConstruct
    /\ \E r \in {getOrRegisterHistogram(metrics, COUNTER, useNull, name, s, now)} :
         Returned("Histogram", name, s, r)

RGetOrRegisterMeter ==
  \E name \in Names :
    /\ Registered(name) \/ CanConstruct
    /\ \E r \in {getOrRegisterMeter(metrics, COUNTER, useNull, name, now)} :
         Returned("Meter", name, JsUndefined, r)

RGetOrRegisterTimer ==
  \E name \in Names :
    /\ Registered(name) \/ CanConstruct
    /\ \E r \in {getOrRegisterTimer(metrics, COUNTER, useNull, name, now)} :
         Returned("Timer", name, JsUndefined, r)

\* registerMetric(new cls(name)), the instance being a new one
RRegisterMetric ==
  /\ CanConstruct
  /\ \E cls \in UserClasses, name \in Names :
       LET metric == NewMetric(cls, COUNTER, name, <<7>>, now)
       IN /\ metrics' = registerMetric(metrics, metric)
          /\ COUNTER' = COUNTER + IdsOf(cls)
          /\ regCall' = RegCall("Registry", "registerMetric", KindOf(cls), name,
                                JsUndefined, metric, FALSE)
  /\ UNCHANGED useNull

RRemoveMetrics ==
  /\ \E name \in Names :
       /\ metrics' = removeMetrics(metrics, name)
       /\ regCall' = RegCall("Registry", "removeMetrics", "", name,
                             JsUndefined, JsUndefined, FALSE)
  /\ UNCHANGED <<COUNTER, useNull>>

\* getCountersByName(name), getGaugesByName(name), ...
RGetByName ==
  /\ \E kind \in Kinds, name \in Names :
       regCall' = RegCall("Registry", "getByName", kind, name, JsUndefined,
                          getByName(metrics, name), FALSE)
  /\ UNCHANGED <<metrics, COUNTER, useNull>>

\* getCounterList(), getGaugeList(), ...
RGetList ==
  /\ \E kind \in Kinds :
       regCall' = RegCall("Registry", "getList", kind, "", JsUndefined,
                          getList(metrics, kind), FALSE)
  /\ UNCHANGED <<metrics, COUNTER, useNull>>

useNullMetrics(t) ==
  /\ useNull' = t
  /\ regCall' = RegCall("Registry", "useNullMetrics", "", "", <<t>>, t, FALSE)

RUseNullMetrics ==
  /\ \E t \in BOOLEAN : useNullMetrics(t)
  /\ UNCHANGED <<metrics, COUNTER>>

\* A registry that holds one metric: the one that a getOrRegister function
\* has made, the switch being on or off, or a FunctionalGauge registered.
InstrumentInit ==
  /\ \E r \in {getOrRegisterCounter(<<>>, 0, un, "a", 0) : un \in BOOLEAN} \cup
              {getOrRegisterGauge(<<>>, 0, un, "a", 0) : un \in BOOLEAN} \cup
              {getOrRegisterHealthcheck(<<>>, 0, un, "a", <<fn>>, 0) :
                 un \in BOOLEAN, fn \in {"healthy", "unhealthy"}} \cup
              {getOrRegisterHistogram(<<>>, 0, un, "a", <<NewUniformSample(0)>>, 0) :
                 un \in BOOLEAN} \cup
              {getOrRegisterMeter(<<>>, 0, un, "a", 0) : un \in BOOLEAN} \cup
              {getOrRegisterTimer(<<>>, 0, un, "a", 0) : un \in BOOLEAN} \cup
              {[metrics |-> registerMetric(<<>>, NewMetric("FunctionalGauge", 0, "a", <<7>>, 0)),
                COUNTER |-> 1, threw |-> FALSE, ret |-> JsUndefined]} :
       /\ metrics = r.metrics
       /\ COUNTER = r.COUNTER
  /\ useNull \in BOOLEAN
  /\ regCall = NoRegCall

\* A method called on a registered metric, through the reference that the
\* registry returned.
ArgsOf(op) == IF op \in {"inc", "dec", "mark", "update"} THEN Incs ELSE {0}

RInvoke ==
  /\ \E i \in 1..Len(metrics) :
       LET m == metrics[i].metricRef
       IN \E op \in MethodsOf(m.cls) : \E arg \in ArgsOf(op) :
            \E r \in {Invoke(m, op, arg, now)} :
              /\ r.m.cls = "StandardCounter" => Abs(r.m.st.count) <= MaxCount
              /\ metrics' = [metrics EXCEPT ![i].metricRef = r.m]
              /\ regCall' = RegCall(m.cls, op, KindOf(m.cls), m.name, <<arg>>, r.ret, FALSE)
  /\ UNCHANGED <<COUNTER, useNull>>

\* time(f) called on a registered timer, with a function f that takes dur ms
\* and returns or throws: the clock moves by the time that f ran, the call
\* throws if f ran and threw, and ran is the number of times that f was
\* called.
RTime ==
  /\ \E i \in 1..Len(metrics) :
       /\ KindOf(metrics[i].metricRef.cls) = "Timer"
       /\ metrics[i].metricRef.cls = "StandardTimer" =>
            TimerCount(metrics[i].metricRef.st) < MaxRecordings
       /\ \E dur \in RunTimes, threw \in BOOLEAN :
            \E f \in 0..(IF metrics[i].metricRef.cls = "StandardTimer"
                         THEN TimerCount(metrics[i].metricRef.st) ELSE 0) :
              \E r \in {InvokeTime(metrics[i].metricRef, now, dur, threw, f)} :
                /\ r.ran * dur > 0 => ticks < MaxTicks
                /\ now' = now + r.ran * dur
                /\ ticks' = IF r.ran * dur > 0 THEN ticks + 1 ELSE ticks
                /\ metrics' = [metrics EXCEPT ![i].metricRef = r.m]
                /\ regCall' = [ran |-> r.ran] @@
                              RegCall(r.m.cls, "time", "Timer", r.m.name,
                                      <<[dur |-> dur, threw |-> threw]>>, JsUndefined,
                                      threw /\ r.ran > 0)
  /\ UNCHANGED <<COUNTER, useNull>>

\* ------------------------------------------------------------------------
\* Reporter, Graphite and InfluxDBv2 (src/src/metric.ts:168-293,
\* src/src/graphite.ts, src/src/influxDBv2.ts)
\*
\* What a reporter sends is a sequence of [key, value]: the suffix of the
\* Graphite path, or the InfluxDB field name, and the value interpolated.
\* ------------------------------------------------------------------------
\* obj.field
Read(obj, field) == IF field \in DOMAIN obj THEN obj[field] ELSE JsUndefined

Line(key, value) == [key |-> key, value |-> value]

\* Graphite.reporter: the lines written for a histogram, meter and timer
GraphiteHistogram(h) ==
  <<Line("count", Read(h, "count")),
    Line("max", Read(h, "max")),
    Line("mean", Read(h, "mean")),
    Line("min", Read(h, "min")),
    Line("stdDev", Read(h, "stdDev")),
    Line("sum", Read(h, "sum")),
    Line("variance", Read(h, "variance")),
    Line("percentile.median", Read(Read(h, "percentile"), "median")),
    Line("percentile.75", Read(Read(h, "percentile"), "_75")),
    Line("percentile.95", Read(Read(h, "percentile"), "_95")),
    Line("percentile.99", Read(Read(h, "percentile"), "_99")),
    Line("percentile.99_9", Read(Read(h, "percentile"), "_99_9"))>>

GraphiteMeter(s) ==
  <<Line("count", Read(s, "count")),
    Line("rate.1min", Read(s, "rate1")),
    Line("rate.5min", Read(s, "rate5")),
    Line("rate.15min", Read(s, "rate15")),
    Line("rate.mean", Read(s, "rateMean"))>>

GraphiteTimer(t) ==
  <<Line("count", Read(t, "count")),
    Line("min", Read(t, "min")),
    Line("max", Read(t, "max")),
    Line("mean", Read(t, "mean")),
    Line("sum", Read(t, "sum")),
    Line("stddev", Read(t, "stddev")),
    Line("variance", Read(t, "variance")),
    Line("median", Read(t, "median")),
    Line("percentile.75", Read(Read(t, "percentile"), "_75")),
    Line("percentile.95", Read(Read(t, "percentile"), "_95")),
    Line("percentile.99", Read(Read(t, "percentile"), "_99")),
    Line("percentile.99_9", Read(Read(t, "percentile"), "_99_9")),
    Line("rate.1min", Read(t, "rate1")),
    Line("rate.5min", Read(t, "rate5")),
    Line("rate.15min", Read(t, "rate15")),
    Line("rate.mean", Read(t, "rateMean"))>>

\* Graphite.reporter(m) at time t: the metric as the reads leave it, and
\* the lines written. The healthcheck branch does not return, and no later
\* branch applies to a healthcheck.
GraphiteReporter(m, t) ==
  CASE isCounter(m) -> [m |-> m, lines |-> <<Line("", CounterCount(m))>>]
    [] isGauge(m) -> [m |-> m, lines |-> <<Line("", GaugeValue(m))>>]
    [] isHealthcheck(m) ->
         LET hc == StandardSnapshot(m, t).ret
         IN [m |-> m,
             lines |-> <<Line("healthy", IF hc.healthy THEN One ELSE Zero)>>]
    [] isHistogram(m) ->
         LET Written(r) == [m |-> r.m, lines |-> GraphiteHistogram(r.ret)]
         IN Written(StandardSnapshot(m, t))
    [] isMeter(m) ->
         LET Written(r) == [m |-> r.m, lines |-> GraphiteMeter(r.ret)]
         IN Written(StandardSnapshot(m, t))
    [] isTimer(m) ->
         LET Written(r) == [m |-> r.m, lines |-> GraphiteTimer(r.ret)]
         IN Written(StandardSnapshot(m, t))
    [] OTHER -> [m |-> m, lines |-> <<>>]

\* InfluxDBv2.reporter: the fields of the line of a histogram, meter, timer
InfluxHistogram(h) ==
  <<Line("count", Read(h, "count")),
    Line("min", Read(h, "min")),
    Line("max", Read(h, "max")),
    Line("mean", Read(h, "mean")),
    Line("sum", Read(h, "sum")),
    Line("stddev", Read(h, "stddev")),
    Line("variance", Read(h, "variance")),
    Line("median", Read(h, "median")),
    Line("percentile_75", Read(Read(h, "percentile"), "_75")),
    Line("percentile_95", Read(Read(h, "percentile"), "_95")),
    Line("percentile_99", Read(Read(h, "percentile"), "_99")),
    Line("percentile_99_9", Read(Read(h, "percentile"), "_99_9"))>>

InfluxMeter(s) ==
  <<Line("count", Read(s, "count")),
    Line("rate_1min", Read(s, "rate1")),
    Line("rate_5min", Read(s, "rate5")),
    Line("rate_15min", Read(s, "rate15")),
    Line("rate_mean", Read(s, "rateMean"))>>

InfluxTimer(t) ==
  InfluxHistogram(t) \o
  <<Line("rate_1min", Read(t, "rate1")),
    Line("rate_5min", Read(t, "rate5")),
    Line("rate_15min", Read(t, "rate15")),
    Line("rate_mean", Read(t, "rateMean"))>>

InfluxReporter(m, t) ==
  CASE isCounter(m) -> [m |-> m, lines |-> <<Line("counter", CounterCount(m))>>]
    [] isGauge(m) -> [m |-> m, lines |-> <<Line("gauge", GaugeValue(m))>>]
    [] isHistogram(m) ->
         LET Written(r) == [m |-> r.m, lines |-> InfluxHistogram(r.ret)]
         IN Written(StandardSnapshot(m, t))
    [] isMeter(m) ->
         LET Written(r) == [m |-> r.m, lines |-> InfluxMeter(r.ret)]
         IN Written(StandardSnapshot(m, t))
    [] isTimer(m) ->
         LET Written(r) == [m |-> r.m, lines |-> InfluxTimer(r.ret)]
         IN Written(StandardSnapshot(m, t))
    [] OTHER -> [m |-> m, lines |-> <<>>]

\* once() of a reporter of class cls at time t, from metric i on: the
\* registry as the snapshots leave it, and everything written.
RECURSIVE OnceLoop(_, _, _, _, _)
OnceLoop(cls, ms, i, t, written) ==
  IF i > Len(ms) THEN [metrics |-> ms, written |-> written]
  ELSE LET Rest(r) ==
             OnceLoop(cls, [ms EXCEPT ![i].metricRef = r.m], i + 1, t, written \o r.lines)
       IN Rest(IF cls = "Graphite" THEN GraphiteReporter(ms[i].metricRef, t)
               ELSE InfluxReporter(ms[i].metricRef, t))

Once(cls, ms, t) == OnceLoop(cls, ms, 1, t, <<>>)

\* once() called k times in a row
RECURSIVE OnceTimes(_, _, _, _)
OnceTimes(k, cls, ms, t) ==
  IF k <= 1 THEN Once(cls, ms, t)
  ELSE Once(cls, OnceTimes(k - 1, cls, ms, t).metrics, t)

\* constructor(reg, flushInterval): #process is undefined until start()
ReporterClasses == {"Graphite", "InfluxDBv2"}

NewReporter(cls, flushInterval) ==
  [cls |-> cls, flushInterval |-> flushInterval, process |-> JsUndefined,
   threw |-> flushInterval <= 0]

\* The runtime's timers: setInterval at time t returns the handle h of a
\* new timer, that fires every `every` ms; clearInterval(undefined) and
\* clearInterval of a timer that is cleared already do nothing.
setInterval(timers, h, every, t) ==
  timers \cup {[id |-> h, since |-> t, every |-> every, fired |-> 0]}

clearInterval(timers, process) ==
  IF process = JsUndefined THEN timers
  ELSE {x \in timers : x.id # process[1]}

\* start() and stop(): the reporter and the timers left
ReporterStartKeep(rep, timers, h, t) ==
  [reporter |-> [rep EXCEPT !.process = <<h>>],
   intervals |-> setInterval(timers, h, rep.flushInterval, t)]

ReporterStart(rep, timers, h, t) ==
  [reporter |-> [rep EXCEPT !.process = <<h>>],
   intervals |-> setInterval(clearInterval(timers, rep.process), h, rep.flushInterval, t)]

ReporterStop(rep, timers) ==
  [reporter |-> rep, intervals |-> clearInterval(timers, rep.process)]

\* The timers that are due at time t
Due(timers, t) == {x \in timers : x.since + (x.fired + 1) * x.every <= t}

\* The reporter under test
FlushUnit == 500
FlushIntervals == {-FlushUnit, 0, FlushUnit, 2 * FlushUnit}

IdleReporter ==
  /\ reporter = NewReporter("Graphite", FlushUnit)
  /\ intervals = {}
  /\ handle = 1
  /\ socket = [destroyed |-> FALSE, written |-> <<>>]
  /\ flushes = 0

\* The registries that a reporter is given: one metric, or two.
FilledSample == UniformUpdate(UniformUpdate(NewUniformSample(MaxR), 9, 0), 10, 0)

ExportMetrics ==
  {NewMetric("StandardCounter", 0, "a", JsUndefined, 0),
   NewMetric("StandardGauge", 0, "a", JsUndefined, 0),
   NewMetric("StandardHealthcheck", 0, "a", <<"healthy">>, 0),
   NewMetric("StandardHistogram", 0, "a", <<NewUniformSample(0)>>, 0),
   NewMetric("StandardHistogram", 0, "a", <<FilledSample>>, 0),
   NewMetric("StandardMeter", 0, "a", JsUndefined, 0),
   [NewMetric("StandardMeter", 0, "a", JsUndefined, 0) EXCEPT !.st = MeterMark(@, 3, 0)],
   NewMetric("StandardTimer", 0, "a", JsUndefined, 0),
   [NewMetric("StandardTimer", 0, "a", JsUndefined, 0) EXCEPT !.st = TimerUpdate(@, 100, 0, 0)],
   NewMetric("NullTimer", 0, "a", JsUndefined, 0)}

ReporterInit ==
  /\ \E m \in ExportMetrics :
       /\ metrics = registerMetric(<<>>, m)
       /\ COUNTER = IdsOf(m.cls)
  /\ useNull = FALSE
  /\ regCall = NoRegCall
  /\ \E cls \in ReporterClasses, flushInterval \in FlushIntervals :
       reporter = NewReporter(cls, flushInterval)
  /\ intervals = {}
  /\ handle = 1
  /\ socket = [destroyed |-> FALSE, written |-> <<>>]
  /\ flushes = 0

\* once() has run k times at time t: what the last one wrote is on the
\* socket, unless the socket is destroyed.
Flushed(k, t) ==
  \E r \in {OnceTimes(k, reporter.cls, metrics, t)} :
    /\ metrics' = r.metrics
    /\ socket' = IF socket.destroyed THEN socket ELSE [socket EXCEPT !.written = r.written]
    /\ flushes' = flushes + k

RStart ==
  /\ ~reporter.threw
  /\ handle <= MaxStarts
  /\ \E r \in {ReporterStart(reporter, intervals, handle, now)} :
       /\ reporter' = r.reporter
       /\ intervals' = r.intervals
  /\ handle' = handle + 1
  /\ call' = Call("start", 0, Zero)
  /\ UNCHANGED <<now, ticks, metrics, socket, flushes>>

\* stop(); Graphite's also destroys its socket
RStop ==
  /\ ~reporter.threw
  /\ \E r \in {ReporterStop(reporter, intervals)} :
       /\ reporter' = r.reporter
       /\ intervals' = r.intervals
  /\ socket' = IF reporter.cls = "Graphite" THEN [socket EXCEPT !.destroyed = TRUE]
               ELSE socket
  /\ call' = Call("stop", 0, Zero)
  /\ UNCHANGED <<now, ticks, metrics, handle, flushes>>

\* once(), called by the user
ROnce ==
  /\ ~reporter.threw
  /\ flushes < MaxFlushes
  /\ Flushed(1, now)
  /\ call' = Call("once", 0, Zero)
  /\ UNCHANGED <<now, ticks, reporter, intervals, handle>>

\* Time passes, and every timer that is due calls once().
RTick ==
  /\ ~reporter.threw
  /\ ticks < MaxTicks
  /\ now' = now + FlushUnit
  /\ ticks' = ticks + 1
  /\ LET due == Due(intervals, now + FlushUnit)
     IN /\ intervals' = (intervals \ due) \cup {[x EXCEPT !.fired = @ + 1] : x \in due}
        /\ IF due = {} THEN UNCHANGED <<metrics, socket, flushes>>
           ELSE Flushed(Cardinality(due), now + FlushUnit)
  /\ call' = Call("tick", 0, Zero)
  /\ UNCHANGED <<reporter, handle>>

\* ------------------------------------------------------------------------
\* Specifications: one per object under test; the others stay idle.
\* ------------------------------------------------------------------------
ewmaVars == <<ew, ewLog>>
edsVars == <<eds>>
meterVars == <<meter, marks>>
coreVars == <<stats, us, usIn, ew, ewLog, eds, meter, marks>>

IdleInit(others) ==
  /\ "stats" \in others => stats = IdleStats
  /\ "uniform" \in others => us = IdleUniform /\ usIn = <<>>
  /\ "ewma" \in others => ew = IdleEwma /\ ewLog = <<>>
  /\ "eds" \in others => eds = IdleEds
  /\ "meter" \in others => meter = IdleMeter /\ marks = <<>>
  /\ "registry" \in others => RegistryInit
  /\ "reporter" \in others => IdleReporter

\* samplePercentiles on arbitrary arguments
InitStats ==
  /\ ClockInit /\ call = NoCall /\ StatsInit
  /\ IdleInit({"uniform", "ewma", "eds", "meter", "registry", "reporter"})

NextStats ==
  Percentiles /\ UNCHANGED <<now, ticks, call, us, usIn, ew, ewLog, eds, meter, marks, regVars, repVars>>

SpecStats == InitStats /\ [][NextStats]_vars

\* a UniformSample
InitUniform ==
  /\ ClockInit /\ call = NoCall /\ UniformInit
  /\ IdleInit({"stats", "ewma", "eds", "meter", "registry", "reporter"})

NextUniform ==
  \/ USUpdate /\ UNCHANGED <<now, ticks, stats, ew, ewLog, eds, meter, marks, regVars, repVars>>
  \/ USClear /\ UNCHANGED <<now, ticks, stats, ew, ewLog, eds, meter, marks, regVars, repVars>>
  \/ USStat /\ UNCHANGED <<now, ticks, stats, ew, ewLog, eds, meter, marks, regVars, repVars>>
  \/ USPercentile /\ UNCHANGED <<now, ticks, stats, ew, ewLog, eds, meter, marks, regVars, repVars>>

SpecUniform == InitUniform /\ [][NextUniform]_vars

\* a StandardEWMA and the clock
InitEwma ==
  /\ ClockInit /\ call = NoCall /\ EwmaInit
  /\ IdleInit({"stats", "uniform", "eds", "meter", "registry", "reporter"})

EWTick == Advance({TickUnit, DefaultPeriod}, MaxTicks) /\ UNCHANGED ewmaVars

NextEwma ==
  \/ EWUpdate /\ UNCHANGED <<now, ticks, stats, us, usIn, eds, meter, marks, regVars, repVars>>
  \/ EWRate /\ UNCHANGED <<now, ticks, stats, us, usIn, eds, meter, marks, regVars, repVars>>
  \/ EWTick /\ UNCHANGED <<stats, us, usIn, eds, meter, marks, regVars, repVars>>

SpecEwma == InitEwma /\ [][NextEwma]_vars

\* a StandardMeter and the clock
InitMeter ==
  /\ ClockInit /\ call = NoCall /\ MeterInit
  /\ IdleInit({"stats", "uniform", "ewma", "eds", "registry", "reporter"})

MTick == Advance({TickUnit, DefaultPeriod}, MaxTicks) /\ UNCHANGED meterVars

NextMeter ==
  \/ MMark /\ UNCHANGED <<now, ticks, stats, us, usIn, ew, ewLog, eds, regVars, repVars>>
  \/ MRateMean /\ UNCHANGED <<now, ticks, stats, us, usIn, ew, ewLog, eds, regVars, repVars>>
  \/ MRate /\ UNCHANGED <<now, ticks, stats, us, usIn, ew, ewLog, eds, regVars, repVars>>
  \/ MTick /\ UNCHANGED <<stats, us, usIn, ew, ewLog, eds, regVars, repVars>>

SpecMeter == InitMeter /\ [][NextMeter]_vars

\* an ExpDecaySample and the clock
InitEds ==
  /\ ClockInit /\ call = NoCall /\ EdsInit
  /\ IdleInit({"stats", "uniform", "ewma", "meter", "registry", "reporter"})

\* half a period of an EWMA, or just over an hour
EDTick == Advance({TickUnit, rescaleThreshold + TickUnit}, MaxHours) /\ UNCHANGED edsVars

NextEds ==
  \/ EDUpdate /\ UNCHANGED <<now, ticks, stats, us, usIn, ew, ewLog, meter, marks, regVars, repVars>>
  \/ EDClear /\ UNCHANGED <<now, ticks, stats, us, usIn, ew, ewLog, meter, marks, regVars, repVars>>
  \/ EDStat /\ UNCHANGED <<now, ticks, stats, us, usIn, ew, ewLog, meter, marks, regVars, repVars>>
  \/ EDPercentile /\ UNCHANGED <<now, ticks, stats, us, usIn, ew, ewLog, meter, marks, regVars, repVars>>
  \/ EDTick /\ UNCHANGED <<stats, us, usIn, ew, ewLog, meter, marks, regVars, repVars>>

SpecEds == InitEds /\ [][NextEds]_vars

\* a StandardTimer and the clock
InitTimer ==
  /\ ClockInit /\ call = NoCall /\ TimerInit
  /\ IdleInit({"stats", "uniform", "ewma", "registry", "reporter"})

TTick == Advance({TickUnit, DefaultPeriod}, MaxTicks) /\ UNCHANGED <<eds, meter, marks>>

NextTimer ==
  \/ TUpdate /\ UNCHANGED <<stats, us, usIn, ew, ewLog, regVars, repVars>>
  \/ TUpdateSince /\ UNCHANGED <<stats, us, usIn, ew, ewLog, regVars, repVars>>
  \/ TTime /\ UNCHANGED <<stats, us, usIn, ew, ewLog, regVars, repVars>>
  \/ TSnapshot /\ UNCHANGED <<stats, us, usIn, ew, ewLog, regVars, repVars>>
  \/ TTick /\ UNCHANGED <<stats, us, usIn, ew, ewLog, regVars, repVars>>

SpecTimer == InitTimer /\ [][NextTimer]_vars

\* a Registry, the switch, and the metrics registered
InitRegistry ==
  /\ ClockInit /\ call = NoCall /\ RegistryInit
  /\ IdleInit({"stats", "uniform", "ewma", "eds", "meter", "reporter"})

NextRegistry ==
  \/ RGetOrRegisterCounter /\ UNCHANGED <<now, ticks, call, coreVars, repVars>>
  \/ RGetOrRegisterGauge /\ UNCHANGED <<now, ticks, call, coreVars, repVars>>
  \/ RGetOrRegisterHealthcheck /\ UNCHANGED <<now, ticks, call, coreVars, repVars>>
  \/ RGetOrRegisterHistogram /\ UNCHANGED <<now, ticks, call, coreVars, repVars>>
  \/ RGetOrRegisterMeter /\ UNCHANGED <<now, ticks, call, coreVars, repVars>>
  \/ RGetOrRegisterTimer /\ UNCHANGED <<now, ticks, call, coreVars, repVars>>
  \/ RRegisterMetric /\ UNCHANGED <<now, ticks, call, coreVars, repVars>>
  \/ RRemoveMetrics /\ UNCHANGED <<now, ticks, call, coreVars, repVars>>
  \/ RGetByName /\ UNCHANGED <<now, ticks, call, coreVars, repVars>>
  \/ RGetList /\ UNCHANGED <<now, ticks, call, coreVars, repVars>>
  \/ RUseNullMetrics /\ UNCHANGED <<now, ticks, call, coreVars, repVars>>

SpecRegistry == InitRegistry /\ [][NextRegistry]_vars

\* a metric of any class, as a registry returns it, and the calls made on it
InitInstrument ==
  /\ ClockInit /\ call = NoCall /\ InstrumentInit
  /\ IdleInit({"stats", "uniform", "ewma", "eds", "meter", "reporter"})

NextInstrument ==
  \/ RInvoke /\ UNCHANGED <<now, ticks, call, coreVars, repVars>>
  \/ RTime /\ UNCHANGED <<call, coreVars, repVars>>

SpecInstrument == InitInstrument /\ [][NextInstrument]_vars

\* a Graphite or InfluxDBv2 reporter over a registry, and the clock
InitReporter ==
  /\ ClockInit /\ call = NoCall /\ ReporterInit
  /\ IdleInit({"stats", "uniform", "ewma", "eds", "meter"})

NextReporter ==
  \/ RStart /\ UNCHANGED <<coreVars, COUNTER, useNull, regCall>>
  \/ RStop /\ UNCHANGED <<coreVars, COUNTER, useNull, regCall>>
  \/ ROnce /\ UNCHANGED <<coreVars, COUNTER, useNull, regCall>>
  \/ RTick /\ UNCHANGED <<coreVars, COUNTER, useNull, regCall>>

SpecReporter == InitReporter /\ [][NextReporter]_vars

\* ------------------------------------------------------------------------
\* Properties
\* ------------------------------------------------------------------------
RECURSIVE SumSeq(_)
SumSeq(q) == IF q = <<>> THEN 0 ELSE Head(q) + SumSeq(Tail(q))

\* The multiset of the elements of a sequence.
BagOf(q) ==
  [x \in {q[i] : i \in DOMAIN q} |-> Cardinality({i \in DOMAIN q : q[i] = x})]

Last(q) == q[Len(q)]

\* C1: on a fresh StandardTimer, after exactly one update(d): count() = 1,
\* max() = d, min() = d, and the count field of snapshot() (the meter's event
\* count) is 1.
C1_TimerRoundTrip ==
  (Len(marks) = 1 /\ call.op = "update") =>
    /\ TimerCount(timer) = 1
    /\ TimerMax(timer) = call.arg
    /\ TimerMin(timer) = call.arg
    /\ meter.count = 1
    /\ TimerSnapshot(timer, now).ret.count = 1

\* C2: a fresh EWMA of period 5000 ms, update(3) within the first period, then
\* rate() once one full period has elapsed returns 3/5; rate() again after one
\* more idle period returns 3/5 * (1 - alpha).
C2_FirstCommitmentThroughRead ==
  LET P == DefaultPeriod
      first == /\ Len(ewLog) >= 2
               /\ ewLog[1].op = "update" /\ ewLog[1].arg = 3 /\ ewLog[1].t < P
               /\ ewLog[2].op = "rate" /\ ewLog[2].t >= P /\ ewLog[2].t < 2 * P
      second == /\ first
                /\ Len(ewLog) >= 3
                /\ ewLog[3].op = "rate" /\ ewLog[3].t >= 2 * P /\ ewLog[3].t < 3 * P
  IN /\ first => ewLog[2].ret = Rat(3, 5)
     /\ second => ewLog[3].ret = RMul(Rat(3, 5), RSub(One, ew.alpha))

\* C3: while no more values have been put into a UniformSample than its
\* reservoir size (reads and percentile queries in between or not), size()
\* and count() are the number of updates and the values kept are exactly,
\* as a multiset, the values put in.
C3_UnderCapacity ==
  Len(usIn) <= us.reservoirSize =>
    /\ UniformSize(us) = Len(usIn)
    /\ us.count = Len(usIn)
    /\ BagOf(us.values) = BagOf(usIn)

C3_Witness ==
  /\ Len(usIn) = 2 /\ us.reservoirSize = 2
  /\ call.op = "percentile"
  /\ us.values # usIn

\* C4: a UniformSample never keeps more values than its reservoir size nor
\* than its count; once more than R values have been put in since
\* construction or clear(), size() = R and count() = the number put in,
\* whatever the random indices.
C4_Capacity ==
  /\ UniformSize(us) <= us.reservoirSize
  /\ UniformSize(us) <= us.count
  /\ Len(usIn) > us.reservoirSize =>
       UniformSize(us) = us.reservoirSize /\ us.count = Len(usIn)

C4_Witness ==
  /\ us.reservoirSize = 2
  /\ Len(usIn) = 4
  /\ call.op = "update"
  /\ BagOf(us.values) # BagOf(SubSeq(usIn, 1, 2))

\* The percentile of the claim: S is V in ascending numeric order,
\* pos = p * (len + 1); S[0] below 1, S[len-1] from len on, and in between
\* the interpolation between S[floor(pos)-1] and S[floor(pos)].
RECURSIVE NumInsert(_, _)
NumInsert(x, s) ==
  IF s = <<>> THEN <<x>>
  ELSE IF x < Head(s) THEN <<x>> \o s
  ELSE <<Head(s)>> \o NumInsert(x, Tail(s))

RECURSIVE Ascending(_)
Ascending(V) ==
  IF V = <<>> THEN <<>> ELSE NumInsert(V[Len(V)], Ascending(SubSeq(V, 1, Len(V) - 1)))

RefPercentile(V, p) ==
  LET S == Ascending(V)
      len == Len(V)
      pos == RMul(p, I2R(len + 1))
      fl == RFloor(pos)
  IN IF RLt(pos, One) THEN I2R(At(S, 0))
     ELSE IF RGe(pos, I2R(len)) THEN I2R(At(S, len - 1))
     ELSE RAdd(I2R(At(S, fl - 1)),
               RMul(RSub(pos, I2R(fl)), I2R(At(S, fl) - At(S, fl - 1))))

\* C5: for a non-empty V and p in [0,1], percentile(V, p) is the reference
\* percentile of V, and percentiles(V, ps) holds at each index the value of
\* percentile(V, ps[i]).
C5_PercentileFormula ==
  (stats.pc = "done" /\ Len(stats.input) > 0) =>
    \A i \in DOMAIN stats.ps :
      /\ stats.scores[i] = RefPercentile(stats.input, stats.ps[i])
      /\ stats.scores[i] = samplePercentile(stats.input, stats.ps[i]).score

\* C6: a sample that keeps no value answers 0 to min, max, mean, sum,
\* variance, stdDev and every percentile, and as many zeros as percentiles
\* asked for; no read raises an error.
C6_EmptyIsZero ==
  Len(us.values) = 0 =>
    /\ \A op \in StatNames : SampleStat(op, us.values) = Zero
    /\ \A p \in Ps : samplePercentile(us.values, p).score = Zero
    /\ \A ps \in SeqsUpTo(Ps, 2) :
         samplePercentiles(us.values, ps).scores = [i \in 1..Len(ps) |-> Zero]
    /\ call.op \in StatNames \cup {"percentile"} => call.ret = Zero /\ ~call.threw

C6_Witness ==
  /\ Len(us.values) = 0 /\ us.reservoirSize > 0
  /\ call.op = "min" /\ call.ret = Zero

\* C7: right after clear() on an ExpDecaySample, count() = 0, size() = 0 and
\* min, max, mean, sum, variance, stdDev and every percentile are 0.
C7_EdsClear ==
  call.op = "clear" =>
    /\ eds.count = 0
    /\ EdsSize(eds) = 0
    /\ \A op \in StatNames : SampleStat(op, eds.values) = Zero
    /\ \A p \in Ps : samplePercentile(eds.values, p).score = Zero

C7_Witness == call.op = "clear" /\ Len(eds.entries) = 2

\* C8: a rate() call that follows a rate() call at the same time returns
\* the same value and changes nothing of the EWMA.
C8_RateIdempotent ==
  [][(/\ Len(ewLog) > 0 /\ Len(ewLog') = Len(ewLog) + 1
      /\ Last(ewLog).op = "rate" /\ Last(ewLog).t = now
      /\ Last(ewLog').op = "rate")
     => (ew' = ew /\ Last(ewLog').ret = Last(ewLog).ret)]_vars

\* The first of two rate() calls at the same time committed a period.
C8_Witness ==
  /\ Len(ewLog) >= 3
  /\ Last(ewLog).op = "rate" /\ ewLog[Len(ewLog) - 1].op = "rate"
  /\ Last(ewLog).t = ewLog[Len(ewLog) - 1].t
  /\ ewLog[Len(ewLog) - 2].t < ew.ts
  /\ Last(ewLog).ret # Zero

\* C9: a meter's count() is the sum of the numbers marked, each of its three
\* EWMAs has been given every number marked, in order, and rateMean() is
\* count() / (1 + seconds since construction): 5 right after mark(5).
C9_MeterMeanRate ==
  /\ meter.count = SumSeq(marks)
  /\ meter.a1.recv = marks /\ meter.a5.recv = marks /\ meter.a15.recv = marks
  /\ call.op = "rateMean" =>
       call.ret = Rat(meter.count * 1000, 1000 + (now - meter.start))
  /\ (call.op = "rateMean" /\ marks = <<5>> /\ now = meter.start) => call.ret = I2R(5)

C9_Witness ==
  /\ call.op = "rateMean"
  /\ Len(marks) >= 2
  /\ now > meter.start

\* C10: a time(f) call whose f throws leaves the timer as it was (the
\* exception reaches the caller); one whose f returns records exactly one
\* duration in the histogram and marks one occurrence on the meter.
C10_TimeFailurePath ==
  [][call'.op = "time" =>
       IF call'.threw
       THEN eds' = eds /\ meter' = meter
       ELSE /\ eds'.count = eds.count + 1
            /\ Len(eds'.entries) = Len(eds.entries) + 1
            /\ Last(eds'.entries).value = call'.arg
            /\ meter'.count = meter.count + 1
            /\ meter'.a1.recv = Append(meter.a1.recv, 1)]_vars

C10_Witness ==
  /\ call.op = "time" /\ call.threw
  /\ eds.count = 1 /\ meter.count = 1

\* A new instance of the standard class of a kind, for comparison.
FreshStandard(kind) ==
  NewMetric(StandardOf(kind), 0, "a",
            IF kind = "Histogram" THEN <<NewUniformSample(0)>> ELSE <<"healthy">>, 0)

\* The fields of a snapshot that hold a number.
NumericFields(snap) ==
  DOMAIN snap \ {"id", "name", "description", "percentile", "healthy", "error"}

\* C11: a null instrument is inert and has the interface of the standard
\* one. Whatever calls were made on it before, a call of a method that
\* returns a number returns 0, error() returns null, and snapshot() returns
\* an object with exactly the field names of the standard variant's snapshot
\* (those of its percentile object included), every number in it being 0,
\* healthy being true and error null.
C11_NullInert ==
  regCall.target \in NullClasses =>
    /\ regCall.op \in NumericReads(regCall.kind) => regCall.ret = Zero
    /\ regCall.op = "error" => regCall.ret = Null
    /\ regCall.op = "snapshot" =>
         LET snap == regCall.ret
             std == StandardSnapshot(FreshStandard(regCall.kind), 0).ret
         IN /\ DOMAIN snap = DOMAIN std
            /\ \A f \in NumericFields(snap) : snap[f] = Zero
            /\ "percentile" \in DOMAIN snap =>
                 /\ DOMAIN snap.percentile = DOMAIN std.percentile
                 /\ \A f \in DOMAIN snap.percentile : snap.percentile[f] = Zero
            /\ regCall.kind = "Healthcheck" =>
                 snap.healthy = TRUE /\ snap.error = Null

\* A null histogram has answered snapshot().
C11_Witness ==
  /\ regCall.target = "NullHistogram"
  /\ regCall.op = "snapshot"
  /\ regCall.ret.count = Zero

\* C12: whatever a Graphite or InfluxDBv2 reporter writes for a metric is a
\* value that the metric's snapshot defines: no value written is undefined.
C12_ExportedDefined ==
  \A i \in DOMAIN socket.written : socket.written[i].value # JsUndefined

\* C13: names are unique in a registry, and registering is idempotent.
\* After every call, no name has more than one registration, and getMetrics()
\* has as many keys as getMetricList() has elements; a getOrRegister call
\* (of any kind) for a name that is registered does not throw, returns the
\* instance registered and leaves the registrations as they are; and
\* registerMetric of a metric whose name is in use leaves them as they are.
C13_UniqueIdempotent ==
  [][/\ \A name \in Names : Len(getByName(metrics', name)) <= 1
     /\ Cardinality(DOMAIN getMetrics(metrics')) = Len(getMetricList(metrics'))
     /\ (regCall'.op = "getOrRegister" /\ getByName(metrics, regCall'.name) # <<>>) =>
          /\ ~regCall'.threw
          /\ regCall'.ret = getByName(metrics, regCall'.name)[1]
          /\ metrics' = metrics
     /\ (regCall'.op = "registerMetric" /\ getByName(metrics, regCall'.name) # <<>>) =>
          metrics' = metrics]_vars

\* A getOrRegister call has returned a metric that was constructed before
\* another one: the call found it registered.
C13_Witness ==
  /\ regCall.op = "getOrRegister" /\ ~regCall.threw
  /\ regCall.ret.id + IdsOf(regCall.ret.cls) < COUNTER
  /\ Len(metrics) = 2

\* C14: a typed lookup returns only metrics of its type. Every element of
\* what getCountersByName(name) (getGaugesByName, ...) returns, and the
\* metric that getOrRegisterCounter(name) (getOrRegisterGauge, ...) returns,
\* implements the interface that the function is named after.
C14_TypedLookups ==
  /\ regCall.op = "getByName" =>
       \A i \in DOMAIN regCall.ret : KindOf(regCall.ret[i].cls) = regCall.kind
  /\ (regCall.op = "getOrRegister" /\ ~regCall.threw) =>
       KindOf(regCall.ret.cls) = regCall.kind

\* The number of elements of a list that are the instance m.
Occurrences(list, m) == Cardinality({i \in DOMAIN list : list[i].id = m.id})

\* C15: the list of a type tracks the registry. While the switch is off and
\* no null instrument is registered, the metric that a getOrRegister function
\* has just returned is in the list of that function's type exactly once, and
\* every element of the list of a type implements that type.
C15_ListsTrack ==
  (~useNull /\ \A i \in DOMAIN metrics : metrics[i].metricRef.cls \notin NullClasses) =>
    /\ (regCall.op = "getOrRegister" /\ ~regCall.threw) =>
         Occurrences(getList(metrics, regCall.kind), regCall.ret) = 1
    /\ \A kind \in Kinds : \A i \in DOMAIN getList(metrics, kind) :
         KindOf(getList(metrics, kind)[i].cls) = kind

\* C16: the switch is read when a metric is created. A getOrRegister call
\* that returns for a name that was not registered has registered, under that
\* name, and returned a new instance of the null class of its kind if the
\* switch is on, of the standard class if it is off; a useNullMetrics call
\* leaves the registrations as they are; and no call changes the class of an
\* instance that stays registered.
C16_SwitchAtCreation ==
  [][/\ (/\ regCall'.op = "getOrRegister" /\ ~regCall'.threw
         /\ getByName(metrics, regCall'.name) = <<>>) =>
          /\ regCall'.ret.cls = IF useNull THEN NullOf(regCall'.kind)
                                ELSE StandardOf(regCall'.kind)
          /\ regCall'.ret.id = COUNTER
          /\ getByName(metrics', regCall'.name) = <<regCall'.ret>>
     /\ regCall'.op = "useNullMetrics" => metrics' = metrics
     /\ \A i \in DOMAIN metrics : \A j \in DOMAIN metrics' :
          metrics[i].metricRef.id = metrics'[j].metricRef.id =>
            metrics[i].metricRef.cls = metrics'[j].metricRef.cls]_vars

\* A standard metric was registered with the switch off, and a getOrRegister
\* call has now created a null one with the switch on.
C16_Witness ==
  /\ useNull /\ regCall.op = "getOrRegister" /\ ~regCall.threw
  /\ regCall.ret.cls \in NullClasses
  /\ regCall.ret.id + IdsOf(regCall.ret.cls) = COUNTER
  /\ Len(metrics) = 2 /\ metrics[1].metricRef.cls \in StandardClasses

\* C17: re-registering after the switch is turned off gives a working
\* counter. When getOrRegisterCounter returns a counter while the switch is
\* off, then after inc(n) on that counter count() is n more than before.
C17_ReRegisterWorks ==
  (/\ regCall.op = "getOrRegister" /\ regCall.kind = "Counter" /\ ~regCall.threw
   /\ ~useNull /\ KindOf(regCall.ret.cls) = "Counter") =>
    \A n \in Incs :
      Invoke(Invoke(regCall.ret, "inc", n, now).m, "count", 0, now).ret =
        RAdd(Invoke(regCall.ret, "count", 0, now).ret, I2R(n))

\* C19: a getOrRegisterHealthcheck call without a function, or a
\* getOrRegisterHistogram call without a sample, throws and leaves the
\* registry as it is when the name is not registered, and returns the metric
\* registered, leaving the registry as it is, when the name is registered.
C19_MisuseRejected ==
  [][(/\ regCall'.op = "getOrRegister"
      /\ regCall'.kind \in {"Healthcheck", "Histogram"}
      /\ regCall'.arg = JsUndefined) =>
       /\ metrics' = metrics /\ COUNTER' = COUNTER /\ useNull' = useNull
       /\ IF getByName(metrics, regCall'.name) = <<>>
          THEN regCall'.threw
          ELSE ~regCall'.threw /\ regCall'.ret = getByName(metrics, regCall'.name)[1]]_vars

\* getOrRegisterHistogram without a sample has thrown, for a name that is
\* not registered in a registry that holds a metric.
C19_Witness ==
  /\ regCall.op = "getOrRegister" /\ regCall.kind = "Histogram"
  /\ regCall.arg = JsUndefined /\ regCall.threw
  /\ Len(metrics) = 1

\* C18: the start/stop protocol of a reporter. The constructor threw exactly
\* when flushInterval <= 0. At most one flush timer is active, it is the one
\* the last start() made, and it has fired once for each flush interval
\* elapsed since that start(); right after stop() no timer is active. A step
\* of the clock runs once() once if an interval of an active timer ends with
\* it, and not at all otherwise (so never between a stop() and the next start()).
C18_StartStopProtocol ==
  /\ [](/\ reporter.threw <=> reporter.flushInterval <= 0
        /\ Cardinality(intervals) <= 1
        /\ call.op = "stop" => intervals = {}
        /\ \A x \in intervals :
             /\ <<x.id>> = reporter.process
             /\ x.every = reporter.flushInterval
             /\ x.fired = (now - x.since) \div x.every)
  /\ [][call'.op = "tick" =>
          flushes' = flushes +
            IF \E x \in intervals : (now' - x.since) % x.every = 0 THEN 1 ELSE 0]_vars

\* start() was called twice, and the clock step that ended the first flush
\* interval of the second timer ran once() once.
C18_Witness ==
  /\ handle = 3 /\ call.op = "tick" /\ flushes = 1
  /\ \E x \in intervals : x.id = 2 /\ x.fired = 1

\* C20: a decaying sample is bounded. A sample made with a reservoir size
\* R >= 1 never retains more than R (priority key, value) entries.
C20_EdsBounded ==
  eds.reservoirSize >= 1 => Len(eds.entries) <= eds.reservoirSize

\* The values of the entries that a decaying sample retains, in order.
EntryValues(s) == [k \in 1..Len(s.entries) |-> s.entries[k].value]

\* C21: the reads of a decaying sample of reservoir size R >= 1 see the
\* retained entries. size() is the number of entries retained, the values
\* that the reads compute over are the values of those entries, and a min(),
\* max(), mean(), sum(), variance() or stdDev() call returns the statistic of
\* those values.
C21_EdsReadsSeeEntries ==
  eds.reservoirSize >= 1 =>
    /\ EdsSize(eds) = Len(eds.entries)
    /\ Len(eds.values) = Len(eds.entries) => eds.values = EntryValues(eds)
    /\ call.op \in StatNames => call.ret = SampleStat(call.op, EntryValues(eds))

\* C22: the rescale deadline of a decaying sample. In every state, after
\* construction, a clear() or a rescale, the deadline #t1 is one hour after
\* #t0; and the elapsed time that a priority key was computed from is never
\* negative.
C22_EdsDeadline ==
  /\ eds.t1 = eds.t0 + rescaleThreshold
  /\ \A k \in DOMAIN eds.entries : eds.entries[k].key.e >= 0

\* C23: the divisor of a priority key is never zero. The divisor f of every
\* entry retained is at least 1, and the divisor of the entry that an
\* update() has just pushed is at most the observation count.
C23_EdsDivisor ==
  /\ \A k \in DOMAIN eds.entries : eds.entries[k].key.f >= 1
  /\ (call.op = "update" /\ eds.entries # <<>>) =>
       eds.entries[Len(eds.entries)].key.f <= eds.count

\* The sum of the numbers passed to the update() calls of a log made at or
\* after time ts.
UpdatedSince(log, ts) ==
  LET Since(c) == c.op = "update" /\ c.t >= ts
      sel == SelectSeq(log, Since)
  IN SumSeq([k \in 1..Len(sel) |-> sel[k].arg])

\* C24: an EWMA commits only at period boundaries. An update() or rate() call
\* made less than one period after #ts changes none of #ewma, #ts and #init,
\* and such an update(x) adds x to #sample; a rate() call leaves #sample as
\* it is or, when it commits, resets it to 0; and in every state #sample is
\* the sum of the numbers passed to update() since the last commitment, that
\* is, by the calls made at or after #ts.
C24_CommitAtBoundaries ==
  /\ [](ew.sample = UpdatedSince(ewLog, ew.ts))
  /\ [][Len(ewLog') = Len(ewLog) + 1 =>
          /\ Last(ewLog').t - ew.ts < ew.period =>
               /\ ew'.ewma = ew.ewma /\ ew'.ts = ew.ts /\ ew'.init = ew.init
               /\ Last(ewLog').op = "update" => ew'.sample = ew.sample + Last(ewLog').arg
          /\ Last(ewLog').op = "rate" =>
               ew'.sample = IF ew'.ts = ew.ts THEN ew.sample ELSE 0]_vars

\* After a commitment, two update() calls within one period have added up.
C24_Witness ==
  /\ ew.init /\ ew.ts > 0 /\ Len(ewLog) >= 3
  /\ Last(ewLog).op = "update" /\ ewLog[Len(ewLog) - 1].op = "update"
  /\ ewLog[Len(ewLog) - 1].t >= ew.ts
  /\ Last(ewLog).t - ew.ts < ew.period
  /\ ew.sample = Last(ewLog).arg + ewLog[Len(ewLog) - 1].arg

\* x to the power n, n a natural number
RECURSIVE RPow(_, _)
RPow(x, n) == IF n = 0 THEN One ELSE RMul(x, RPow(x, n - 1))

\* C25: catch-up over the periods elapsed. When an update(x) or rate() call
\* on an initialized EWMA, of rate r and sum s, is made k >= 1 whole periods
\* after #ts, the rate becomes (1 - alpha)^(k-1) * (alpha * s / (period/1000)
\* + (1 - alpha) * r), #ts moves on by k periods, and the sum becomes 0 for
\* rate() and x for update(x).
C25_CatchUp ==
  [][(/\ Len(ewLog') = Len(ewLog) + 1 /\ ew.init
      /\ Last(ewLog').t - ew.ts >= ew.period) =>
       /\ ew'.ewma =
            RMul(RPow(RSub(One, ew.alpha), ((Last(ewLog').t - ew.ts) \div ew.period) - 1),
                 RAdd(RMul(ew.alpha, RDiv(I2R(ew.sample), Rat(ew.period, 1000))),
                      RMul(RSub(One, ew.alpha), ew.ewma)))
       /\ ew'.ts = ew.ts + ((Last(ewLog').t - ew.ts) \div ew.period) * ew.period
       /\ ew'.sample = IF Last(ewLog').op = "update" THEN Last(ewLog').arg ELSE 0
       /\ ew'.init]_vars

\* A call made two whole periods after #ts, on an EWMA that the call before
\* it left initialized with a sum to commit, has caught up.
C25_Witness ==
  /\ Len(ewLog) >= 3 /\ ew.init /\ ew.ewma # Zero
  /\ ewLog[Len(ewLog) - 2].op = "update" /\ ewLog[Len(ewLog) - 2].t < DefaultPeriod
  /\ ewLog[Len(ewLog) - 1].op = "update" /\ ewLog[Len(ewLog) - 1].t = DefaultPeriod
  /\ Last(ewLog).t = 3 * DefaultPeriod
  /\ ew.ts = 3 * DefaultPeriod

\* C30: the tick of an EWMA stays aligned. Once the EWMA is initialized, the
\* last update() or rate() call left #ts at most at the time of the call and
\* less than one period before it; #ts is always a whole number of periods
\* after its value at construction; and no step makes #ts smaller.
C30_TickAligned ==
  /\ [](/\ (ew.init /\ ewLog # <<>>) =>
             /\ 0 <= Last(ewLog).t - ew.ts
             /\ Last(ewLog).t - ew.ts < ew.period
        /\ ew.ts % ew.period = 0 /\ ew.ts >= 0)
  /\ [][ew'.ts >= ew.ts]_vars

\* The last call was made strictly inside the third period or a later one,
\* on an initialized EWMA.
C30_Witness ==
  /\ ew.init /\ ewLog # <<>>
  /\ ew.ts >= 2 * ew.period
  /\ Last(ewLog).t > ew.ts

\* C26: the histogram and the meter of a timer stay in step. count(), the
\* observation count of the histogram's sample, and the event count of the
\* meter are both the number of recordings made by update(), updateSince()
\* and the time() calls that returned, and snapshot() reports that number as
\* count.
C26_TimerInStep ==
  /\ TimerCount(timer) = Len(marks)
  /\ meter.count = Len(marks)
  /\ call.op = "snapshot" => call.ret.count = Len(marks)

\* snapshot() after two recordings, time having passed since construction
C26_Witness ==
  /\ call.op = "snapshot" /\ Len(marks) = 2 /\ call.ret.count = 2
  /\ now > 0

\* C27, as stated: on a full UniformSample (R >= 1 values kept), whatever
\* index r in [0, count) update(x) draws, count being the count incremented,
\* r < len(values) and x replaces values[r].
C27_AlwaysReplaces ==
  (us.reservoirSize >= 1 /\ UniformSize(us) = us.reservoirSize) =>
    \A i \in Values, r \in 0..us.count :
      /\ r < Len(us.values)
      /\ UniformUpdate(us, i, r).values = [us.values EXCEPT ![r + 1] = i]

\* C27, amended: on a full UniformSample, update(x) with the index r drawn
\* replaces values[r] by x when r < R, and discards x, leaving the values as
\* they are, when r >= R; either way the count grows by one and the size
\* stays R.
C27_ReplacesOrDiscards ==
  UniformSize(us) = us.reservoirSize =>
    \A i \in Values, r \in 0..us.count :
      /\ UniformUpdate(us, i, r).values =
           IF r < us.reservoirSize THEN [us.values EXCEPT ![r + 1] = i] ELSE us.values
      /\ UniformUpdate(us, i, r).count = us.count + 1
      /\ UniformSize(UniformUpdate(us, i, r)) = us.reservoirSize

\* An update() on a full sample has discarded its value: the sample of size
\* 2 still holds the first two values put in, and the third is another.
C27_Witness ==
  /\ call.op = "update" /\ us.reservoirSize = 2 /\ Len(usIn) = 3
  /\ us.values = SubSeq(usIn, 1, 2)
  /\ usIn[3] \notin {usIn[1], usIn[2]}

\* C28: time(f) runs the function whatever the class of the timer. A
\* time(f) call on a StandardTimer or a NullTimer has called f exactly once.
C28_TimeRunsFunction ==
  (regCall.op = "time" /\ "ran" \in DOMAIN regCall) => regCall.ran = 1


\* C29: the extreme percentiles are the extreme values, and a percentile query
\* only reorders the sample. Every percentile(p) call on a non-empty
\* UniformSample returns min() for p = 0 and max() for p = 1, and leaves
\* count(), size() and the multiset of the retained values as they were.
C29_PercentileExtremes ==
  [][(call'.op = "percentile" /\ Len(us.values) > 0) =>
       /\ call'.arg = Zero => call'.ret = I2R(sampleMin(us.values))
       /\ call'.arg = One => call'.ret = I2R(sampleMax(us.values))
       /\ us'.count = us.count
       /\ UniformSize(us') = UniformSize(us)
       /\ BagOf(us'.values) = BagOf(us.values)]_vars
====
